---------------------------- MODULE Spec2Model ----------------------------
(***************************************************************************)
(* A model of the draftsmith_textual outline client: the tree projection   *)
(* functions of note_managers.py, the tab manager of tab_manager.py and    *)
(* the handlers of NotesApp in tui.py.                                      *)
(*                                                                         *)
(* A TreeNote is a record [id, title, content, children]; a title is a     *)
(* sequence of one-character strings.  A widget node (Textual TreeNode) is *)
(* a record [label, data, expanded, children]; data is a TreeNote or None. *)
(***************************************************************************)
EXTENDS Integers, Sequences, FiniteSets, TLC

VARIABLES
    arg_notes,   \* pure functions: the list of TreeNote passed in
    arg_query,   \* pure functions: the query string passed in
    arg_ids,     \* pure functions: the set of ids passed in
    ret,         \* pure functions: the value returned
    fn,          \* pure functions: the function that returned it, "none" before
    srv_parent,  \* the service: note id -> id of its parent, 0 at top level
    tabs,        \* TabManager.tabs: the TabContent of every open tab
    current_tab_index,   \* TabManager.current_tab_index (0-based)
    current_fold_level,  \* NotesApp.current_fold_level
    last_filter, \* NotesApp.last_filter
    last_search, \* NotesApp.last_search
    dialog_mode, \* NotesApp.dialog_mode
    flat_view,   \* NotesApp.flat_view
    marked_for_move,     \* NotesApp.marked_for_move
    calls,       \* the requests the last handler sent to the service, in order
    op,          \* the last handler that ran and what it was given
    crashed,     \* an exception left a handler: the application has stopped
    session,     \* history: per tab, the view settings in force when it was last current
    cycled,      \* history: fold_cycle steps in a row since the fold level was 0, 0 outside such a run
    follow_mode,   \* NotesApp.follow_mode
    auto_sync_gui, \* NotesApp.auto_sync_gui
    notices,     \* the notifications the last connect or edit handler showed, in order
    socket_file, \* the socket path: "absent", "stale" (a file nobody listens on) or "bound"
    attempts,    \* history: the connections tried on the socket path so far; the n-th carries the tag n
    backlog,     \* the connections the listening socket holds, not yet accepted, with what was sent on them
    ipc_thread,  \* the preview's listener thread: where it is and the connection it serves
    events,      \* the preview's UI thread: the update_note_id emissions queued for it
    shown,       \* the preview: the note id the combo box is on, 0 for none
    received,    \* history: the tags of the messages the listener has read, in order
    applied,     \* history: the tags of the emissions the UI thread has handled, in order
    srv_content, \* the service: note id -> content
    tmp_files,   \* the temporary files that exist, by the number of the edit that made them
    gui_edits,   \* the edits waiting for a GUI editor process
    edit_count   \* the edits started so far

pure_vars == <<arg_notes, arg_query, arg_ids, ret, fn>>
srv_vars == <<srv_parent>>
tab_vars == <<tabs, current_tab_index>>
app_vars == <<current_fold_level, last_filter, last_search, dialog_mode,
              flat_view, marked_for_move>>
run_vars == <<calls, op, crashed>>
vars == <<arg_notes, arg_query, arg_ids, ret, fn, srv_parent, tabs, current_tab_index,
          current_fold_level, last_filter, last_search, dialog_mode, flat_view,
          marked_for_move, calls, op, crashed, session, cycled,
          follow_mode, auto_sync_gui, notices, socket_file, attempts, backlog,
          ipc_thread, events, shown, received, applied,
          srv_content, tmp_files, gui_edits, edit_count>>

gui_vars == <<follow_mode, auto_sync_gui, notices>>
ipc_vars == <<socket_file, attempts, backlog>>
preview_vars == <<ipc_thread, events, shown, received, applied>>
edit_vars == <<srv_content, tmp_files, gui_edits, edit_count>>
ext_vars == <<gui_vars, ipc_vars, preview_vars, edit_vars>>


(***************************************************************************)
(* Bounds of the checked instances.                                        *)
(***************************************************************************)
PureNotes == 3
AppNotes == 3

AppIds == 1..AppNotes

\* No connection: the listener thread serves none.
NoConn == [tag |-> 0, chunks |-> <<>>]

\* NotesApp.__init__ (follow_mode, auto_sync_gui), a service whose note i
\* has the content i, no preview running and no edit under way.
Outside ==
    /\ follow_mode = TRUE
    /\ auto_sync_gui = FALSE
    /\ notices = <<>>
    /\ socket_file = "absent"
    /\ attempts = <<>>
    /\ backlog = <<>>
    /\ ipc_thread = [pc |-> "none", conn |-> NoConn]
    /\ events = <<>>
    /\ shown = 0
    /\ received = <<>>
    /\ applied = <<>>
    /\ srv_content = [i \in AppIds |-> i]
    /\ tmp_files = {}
    /\ gui_edits = {}
    /\ edit_count = 0

(***************************************************************************)
(* Strings.  str.lower() on the letters the instances use.                 *)
(***************************************************************************)
Lower(c) ==
    CASE c = "A" -> "a"
      [] c = "B" -> "b"
      [] c = "C" -> "c"
      [] OTHER -> c

CharSetLower(s) == {Lower(s[i]) : i \in DOMAIN s}

Titles == { <<"a">>, <<"B">>, <<"b", "a">>, <<"c", "A", "c">> }
Queries == { <<>>, <<"a">>, <<"A", "b">>, <<"b", "b">>, <<"c", "a">> }

(***************************************************************************)
(* api.TreeNote.                                                           *)
(***************************************************************************)
TreeNote(id, title, content, children) ==
    [id |-> id, title |-> title, content |-> content, children |-> children]

\* None in the place of a TreeNote (node.data of the root and of an error
\* leaf): no note has the id 0.
None == TreeNote(0, <<>>, 0, <<>>)

RECURSIVE SortedSeq(_, _)
SortedSeq(S, desc) ==
    IF S = {} THEN <<>>
    ELSE LET m == IF desc THEN CHOOSE x \in S : \A y \in S : y <= x
                  ELSE CHOOSE x \in S : \A y \in S : x <= y
         IN <<m>> \o SortedSeq(S \ {m}, desc)

\* The tree the service holds for a parent function par (0: top level), the
\* titles ttl and the contents cnt; siblings in ascending or descending id.
RECURSIVE BuildNote(_, _, _, _, _, _)
BuildNote(i, N, par, ttl, cnt, desc) ==
    LET kids == SortedSeq({c \in 1..N : par[c] = i}, desc)
    IN TreeNote(i, ttl[i], cnt[i],
                [k \in DOMAIN kids |-> BuildNote(kids[k], N, par, ttl, cnt, desc)])

BuildTree(N, par, ttl, cnt, desc) ==
    LET tops == SortedSeq({c \in 1..N : par[c] = 0}, desc)
    IN [k \in DOMAIN tops |-> BuildNote(tops[k], N, par, ttl, cnt, desc)]

\* Parent functions of forests: a note's parent has a smaller id.
Forests(N) == {par \in [1..N -> 0..N] : \A i \in 1..N : par[i] < i}

(***************************************************************************)
(* note_managers.filter_notes_by_query                                     *)
(***************************************************************************)
title_matches(note, query) ==
    \A char \in CharSetLower(query) : char \in CharSetLower(note.title)

RECURSIVE filter_notes_by_query(_, _)
RECURSIVE filter_notes_by_query_from(_, _, _)
\* The for loop from its i-th note on.
filter_notes_by_query_from(notes, query, i) ==
    IF i > Len(notes) THEN <<>>
    ELSE LET note == notes[i]
             filtered_children ==
                 IF note.children # <<>>
                 THEN filter_notes_by_query(note.children, query)
                 ELSE <<>>
             current_note ==
                 TreeNote(note.id, note.title, note.content, filtered_children)
         IN (IF title_matches(note, query) \/ filtered_children # <<>>
             THEN <<current_note>> ELSE <<>>)
            \o filter_notes_by_query_from(notes, query, i + 1)

\* A filter that keeps a note only for its own title.
RECURSIVE filter_notes_by_query_own_title(_, _, _)
filter_notes_by_query_own_title(notes, query, i) ==
    IF i > Len(notes) THEN <<>>
    ELSE LET note == notes[i]
             filtered_children ==
                 IF note.children # <<>>
                 THEN filter_notes_by_query_own_title(note.children, query, 1)
                 ELSE <<>>
             current_note ==
                 TreeNote(note.id, note.title, note.content, filtered_children)
         IN (IF title_matches(note, query)
             THEN <<current_note>> ELSE <<>>)
            \o filter_notes_by_query_own_title(notes, query, i + 1)

filter_notes_by_query_mut(notes, query) ==
    IF query = <<>> THEN notes ELSE filter_notes_by_query_own_title(notes, query, 1)

\* A filter for which the empty query matches nothing.
filter_notes_by_query_empty_nothing(notes, query) ==
    IF query = <<>> THEN <<>> ELSE filter_notes_by_query_from(notes, query, 1)

filter_notes_by_query(notes, query) ==
    IF query = <<>> THEN notes ELSE filter_notes_by_query_from(notes, query, 1)

(***************************************************************************)
(* Reading a forest of TreeNote.                                           *)
(***************************************************************************)
RECURSIVE NodeSet(_)
\* Every note of a forest, as the record it is in the forest.
NodeSet(notes) ==
    UNION { {notes[i]} \cup NodeSet(notes[i].children) : i \in DOMAIN notes }

IdSeq(notes) == [i \in DOMAIN notes |-> notes[i].id]
IdsOf(notes) == {n.id : n \in NodeSet(notes)}
NoteWithId(notes, id) == CHOOSE n \in NodeSet(notes) : n.id = id

(***************************************************************************)
(* The pure functions, applied to every bounded input.                     *)
(***************************************************************************)
InitPure ==
    /\ \E par \in Forests(PureNotes), ttl \in [1..PureNotes -> Titles], desc \in BOOLEAN :
          arg_notes = BuildTree(PureNotes, par, ttl, [i \in 1..PureNotes |-> i], desc)
    /\ arg_query \in Queries
    /\ arg_ids = {}
    /\ ret = <<>>
    /\ fn = "none"
    /\ srv_parent = <<>>
    /\ tabs = <<>>
    /\ current_tab_index = 0
    /\ current_fold_level = 0
    /\ last_filter = <<>>
    /\ last_search = <<>>
    /\ dialog_mode = "filter"
    /\ flat_view = FALSE
    /\ marked_for_move = {}
    /\ calls = <<>>
    /\ op = [name |-> "none"]
    /\ crashed = FALSE
    /\ session = <<>>
    /\ cycled = 0
    /\ Outside

CallFilterByQuery ==
    /\ fn = "none"
    /\ ret' = filter_notes_by_query(arg_notes, arg_query)
    /\ fn' = "filter_notes_by_query"
    /\ UNCHANGED <<arg_notes, arg_query, arg_ids>>
    /\ UNCHANGED <<srv_vars, tab_vars, app_vars, run_vars, session, cycled, ext_vars>>

NextPure == CallFilterByQuery

SpecPure == InitPure /\ [][NextPure]_vars

(***************************************************************************)
(* C1: for a non-empty query the result of filter_notes_by_query holds     *)
(* exactly the notes of the input whose title has every lowercased         *)
(* character of the query, or that have such a descendant; each kept note  *)
(* keeps its title and content and exactly its kept children, in the       *)
(* order of the input, and so does the top level.                          *)
(***************************************************************************)
Matches(note, query) ==
    \A i \in DOMAIN query :
        \E j \in DOMAIN note.title : Lower(note.title[j]) = Lower(query[i])

RetainedIds(notes, query) ==
    {n.id : n \in {m \in NodeSet(notes) :
                      Matches(m, query)
                      \/ \E d \in NodeSet(m.children) : Matches(d, query)}}

KeepOnly(ids, S) == SelectSeq(ids, LAMBDA x : x \in S)

C1_FilterByQueryExact ==
    (fn = "filter_notes_by_query" /\ arg_query # <<>>) =>
        LET keep == RetainedIds(arg_notes, arg_query)
        IN /\ IdsOf(ret) = keep
           /\ IdSeq(ret) = KeepOnly(IdSeq(arg_notes), keep)
           /\ \A r \in NodeSet(ret) :
                 LET n == NoteWithId(arg_notes, r.id)
                 IN /\ r.title = n.title
                    /\ r.content = n.content
                    /\ IdSeq(r.children) = KeepOnly(IdSeq(n.children), keep)

\* A kept ancestor that does not match itself, beside a dropped sibling.
C1_Witness ==
    /\ fn = "filter_notes_by_query"
    /\ arg_query # <<>>
    /\ \E r \in NodeSet(ret) : ~Matches(r, arg_query) /\ r.children # <<>>
    /\ IdsOf(ret) # IdsOf(arg_notes)
    /\ \E n \in NodeSet(arg_notes) :
          n.id \in IdsOf(ret) /\ Len(n.children) > Len(NoteWithId(ret, n.id).children)


(***************************************************************************)
(* The service.  It holds AppNotes notes; get_notes_tree returns them as a *)
(* forest, siblings in ascending id.  Notes 1 and 3 carry the same title.  *)
(***************************************************************************)
AppTitle(i) ==
    CASE i = 1 -> <<"a">>
      [] i = 2 -> <<"b">>
      [] i = 3 -> <<"a">>
      [] OTHER -> <<"c", "a">>

\* The notes in a chain: note 1 at top level, note i + 1 the child of note i.
ChainParent == [i \in AppIds |-> i - 1]

\* Every note at top level.
FlatParent == [i \in AppIds |-> 0]

\* get_notes_tree() of a service whose notes have the parents par.
ServerTreeWith(par, cnt) ==
    BuildTree(AppNotes, par, [i \in AppIds |-> AppTitle(i)], cnt, FALSE)

ServerTreeOf(par) == ServerTreeWith(par, srv_content)

ServerTree == ServerTreeOf(srv_parent)

(***************************************************************************)
(* The Textual Tree widget: a node is [label, data, expanded,              *)
(* allow_expand, children]; a node is addressed by its path, the sequence  *)
(* of child positions that leads to it from the root (<<>>: the root).     *)
(***************************************************************************)
WNode(label, data, expanded, allow_expand, children) ==
    [label |-> label, data |-> data, expanded |-> expanded,
     allow_expand |-> allow_expand, children |-> children]

RootLabel == <<"Notes">>
MarkPrefix == <<"*", " ">>
ErrorLabel(what) == <<what>>

\* Tree("Notes"): a collapsed root without children.
NewTree == WNode(RootLabel, None, FALSE, TRUE, <<>>)

\* Tree.clear(): a new root with the old root's label, data and expansion.
tree_clear(root) == [root EXCEPT !.children = <<>>]

add_leaf(node, label) ==
    [node EXCEPT !.children = @ \o <<WNode(label, None, FALSE, FALSE, <<>>)>>]

\* isinstance(node.data, api.TreeNote)
IsNote(data) == data.id # 0

RECURSIVE NodeAt(_, _)
NodeAt(node, path) ==
    IF path = <<>> THEN node ELSE NodeAt(node.children[Head(path)], Tail(path))

RECURSIVE PathsOf(_)
PathsOf(node) ==
    {<<>>} \cup UNION { {<<i>> \o p : p \in PathsOf(node.children[i])} :
                          i \in DOMAIN node.children }

RECURSIVE VisiblePaths(_)
\* The lines the widget shows: the root, and the children of expanded lines.
VisiblePaths(node) ==
    {<<>>} \cup
    (IF node.expanded
     THEN UNION { {<<i>> \o p : p \in VisiblePaths(node.children[i])} :
                    i \in DOMAIN node.children }
     ELSE {})

RECURSIVE SetExpandedAt(_, _, _)
\* TreeNode.expand() / TreeNode.collapse() of the node at path.
SetExpandedAt(node, path, e) ==
    IF path = <<>> THEN [node EXCEPT !.expanded = e]
    ELSE [node EXCEPT !.children[Head(path)] = SetExpandedAt(@, Tail(path), e)]

RECURSIVE collapse_all(_)
\* TreeNode.collapse_all(): the node and every descendant.
collapse_all(node) ==
    [node EXCEPT !.expanded = FALSE,
                 !.children = [i \in DOMAIN @ |-> collapse_all(@[i])]]

(***************************************************************************)
(* NoteTreeManager                                                         *)
(***************************************************************************)
RECURSIVE populate_tree(_, _)
\* The widget nodes added for notes (all collapsed, a childless note a leaf).
\* Every label is the bare title, whatever is marked.
RECURSIVE populate_tree_unmarked(_, _)
populate_tree_unmarked(notes, marked_notes) ==
    [i \in DOMAIN notes |->
        LET note == notes[i]
            has_children == note.children # <<>>
        IN WNode(note.title, note, FALSE, has_children,
                 IF has_children THEN populate_tree_unmarked(note.children, marked_notes)
                 ELSE <<>>)]

populate_tree(notes, marked_notes) ==
    [i \in DOMAIN notes |->
        LET note == notes[i]
            label == IF note.id \in marked_notes
                     THEN MarkPrefix \o note.title ELSE note.title
            has_children == note.children # <<>>
        IN WNode(label, note, FALSE, has_children,
                 IF has_children THEN populate_tree(note.children, marked_notes)
                 ELSE <<>>)]

RECURSIVE get_expanded_nodes(_)
get_expanded_nodes(node) ==
    IF node.expanded
    THEN {node.label}
         \cup UNION {get_expanded_nodes(node.children[i]) : i \in DOMAIN node.children}
    ELSE {}

RECURSIVE restore_expanded_nodes(_, _)
restore_expanded_nodes(node, expanded_nodes) ==
    [node EXCEPT
        !.expanded = IF node.label \in expanded_nodes THEN TRUE ELSE @,
        !.children = [i \in DOMAIN @ |-> restore_expanded_nodes(@[i], expanded_nodes)]]

\* get_node_level(node) is the number of ancestors of node: current_level.
RECURSIVE fold_to_level_at(_, _, _)
fold_to_level_at(node, target_level, current_level) ==
    IF current_level <= target_level
    THEN [node EXCEPT
            !.expanded = TRUE,
            !.children = [i \in DOMAIN @ |->
                             fold_to_level_at(@[i], target_level, current_level + 1)]]
    ELSE [node EXCEPT !.expanded = FALSE]

\* A fold that also expands the first level below the target.
RECURSIVE fold_to_level_deeper(_, _, _)
fold_to_level_deeper(node, target_level, current_level) ==
    IF current_level <= target_level + 1
    THEN [node EXCEPT
            !.expanded = TRUE,
            !.children = [i \in DOMAIN @ |->
                             fold_to_level_deeper(@[i], target_level, current_level + 1)]]
    ELSE [node EXCEPT !.expanded = FALSE]

fold_to_level_mut(root, target_level) == fold_to_level_deeper(root, target_level, 0)

fold_to_level(root, target_level) == fold_to_level_at(root, target_level, 0)

RECURSIVE SeqMax(_)
SeqMax(s) ==
    IF Len(s) = 1 THEN s[1]
    ELSE LET m == SeqMax(Tail(s)) IN IF s[1] >= m THEN s[1] ELSE m

RECURSIVE get_max_depth_at(_, _)
get_max_depth_at(node, current_level) ==
    IF node.children = <<>> THEN current_level
    ELSE SeqMax([i \in DOMAIN node.children |->
                    get_max_depth_at(node.children[i], current_level + 1)])

\* The depth of the leaf reached through the first children.
RECURSIVE get_max_depth_first_leaf(_)
get_max_depth_first_leaf(root) ==
    IF root.children = <<>> THEN 0
    ELSE 1 + get_max_depth_first_leaf(root.children[1])

\* The depth counted from 1 at the root.
get_max_depth_from_one(root) == get_max_depth_at(root, 1)

get_max_depth(root) == get_max_depth_at(root, 0)

RECURSIVE unfold_node(_)
unfold_node(node) ==
    [node EXCEPT !.expanded = TRUE,
                 !.children = [i \in DOMAIN @ |-> unfold_node(@[i])]]


(***************************************************************************)
(* TabManager.  The tab-content container holds the tree of one tab: each  *)
(* switch_to_tab removes its children and mounts the tree of the tab it    *)
(* switches to, so query_one("#notes-tree-<k>") finds a tree exactly when  *)
(* the current tab's tree carries the id k.                                *)
(***************************************************************************)
MaxTabs == 2

\* What get_notes_tree did: it returned the tree, or it raised.
Fetches == {"ok", "fail"}

\* Tree.cursor_node is None: no line holds the cursor.  A tree that has been
\* cleared and rebuilt holds no cursor until the cursor is moved again.
NoCursor == <<-1>>

TabContent(tree_id) ==
    [tree_id |-> tree_id, tree |-> NewTree, cursor |-> NoCursor,
     last_filter |-> <<>>, last_search |-> <<>>, dialog_mode |-> "filter"]

HasCurrentTab(ts) == ts # <<>>

\* query_one(f"#notes-tree-{k}", Tree) finds the mounted tree.
TreeMounted(ts, idx, k) == ts # <<>> /\ ts[idx + 1].tree_id = k

\* A refresh that leaves the old nodes beside the error leaf.
refresh_current_tab_mut(ts, idx, marked, notes, fetched) ==
    IF ~HasCurrentTab(ts) THEN ts
    ELSE LET tree == ts[idx + 1].tree
             expanded_nodes == get_expanded_nodes(tree)
             cleared == tree_clear(tree)
             rebuilt ==
                 IF fetched = "ok"
                 THEN restore_expanded_nodes(
                          [cleared EXCEPT !.children = populate_tree(notes, marked)],
                          expanded_nodes)
                 ELSE add_leaf(tree, ErrorLabel("Error loading notes"))
         IN [ts EXCEPT ![idx + 1].tree = rebuilt, ![idx + 1].cursor = NoCursor]

\* notes: the tree the service holds; fetched: what get_notes_tree did.
refresh_current_tab(ts, idx, marked, notes, fetched) ==
    IF ~HasCurrentTab(ts) THEN ts
    ELSE LET tree == ts[idx + 1].tree
             expanded_nodes == get_expanded_nodes(tree)
             cleared == tree_clear(tree)
             rebuilt ==
                 IF fetched = "ok"
                 THEN restore_expanded_nodes(
                          [cleared EXCEPT !.children = populate_tree(notes, marked)],
                          expanded_nodes)
                 ELSE add_leaf(cleared, ErrorLabel("Error loading notes"))
         IN [ts EXCEPT ![idx + 1].tree = rebuilt, ![idx + 1].cursor = NoCursor]

\* The result: the tabs and the current index.
switch_to_tab(ts, cur, index, marked, notes, fetched) ==
    IF 0 <= index /\ index < Len(ts)
    THEN [tabs |-> refresh_current_tab(ts, index, marked, notes, fetched), idx |-> index]
    ELSE [tabs |-> ts, idx |-> cur]

\* fetched1: the fetch of switch_to_tab, fetched2: that of line 52.
create_new_tab_restoring(ts, cur, marked, notes, fetched1, fetched2, restore) ==
    LET n == Len(ts)
        expanded_nodes ==
            IF TreeMounted(ts, cur, n - 1)
            THEN get_expanded_nodes(ts[cur + 1].tree) ELSE {}
        sw == switch_to_tab(Append(ts, TabContent(n)), cur, n, marked, notes, fetched1)
        ts2 == refresh_current_tab(sw.tabs, sw.idx, marked, notes, fetched2)
        folded == fold_to_level(ts2[n + 1].tree, 0)
    IN [tabs |-> [ts2 EXCEPT ![n + 1].tree =
                     IF restore THEN restore_expanded_nodes(folded, expanded_nodes)
                     ELSE folded],
        idx |-> sw.idx]

\* A new tab that is folded to level 0 and left so.
create_new_tab_mut(ts, cur, marked, notes, fetched1, fetched2) ==
    create_new_tab_restoring(ts, cur, marked, notes, fetched1, fetched2, FALSE)

create_new_tab(ts, cur, marked, notes, fetched1, fetched2) ==
    create_new_tab_restoring(ts, cur, marked, notes, fetched1, fetched2, TRUE)

RemoveAt(s, i) == [k \in 1..(Len(s) - 1) |-> IF k < i THEN s[k] ELSE s[k + 1]]

Max(a, b) == IF a >= b THEN a ELSE b

\* A close that keeps the index of the closed tab.
close_current_tab_mut(ts, cur, marked, notes, fetched) ==
    IF Len(ts) > 1
    THEN switch_to_tab(RemoveAt(ts, cur + 1), cur, cur, marked, notes, fetched)
    ELSE [tabs |-> ts, idx |-> cur]

close_current_tab(ts, cur, marked, notes, fetched) ==
    IF Len(ts) > 1
    THEN LET idx == Max(0, cur - 1)
         IN switch_to_tab(RemoveAt(ts, cur + 1), idx, idx, marked, notes, fetched)
    ELSE [tabs |-> ts, idx |-> cur]

next_tab(ts, cur, marked, notes, fetched) ==
    IF ts # <<>>
    THEN switch_to_tab(ts, cur, (cur + 1) % Len(ts), marked, notes, fetched)
    ELSE [tabs |-> ts, idx |-> cur]

previous_tab(ts, cur, marked, notes, fetched) ==
    IF ts # <<>>
    THEN switch_to_tab(ts, cur, (cur - 1) % Len(ts), marked, notes, fetched)
    ELSE [tabs |-> ts, idx |-> cur]

(***************************************************************************)
(* NotesApp: what every handler starts from.                               *)
(***************************************************************************)
\* self.notify(text, severity=severity)
Notice(severity, text) == [severity |-> severity, text |-> text]

\* marked: marked_for_move as the handler found it; notice: what a handler
\* that moves, marks, creates or deletes notes has passed to self.notify.
Op(name, arg, fetch) ==
    [name |-> name, arg |-> arg, fetch |-> fetch, marked |-> marked_for_move,
     hits |-> <<>>, notice |-> <<>>]

Told(o, notice) == [o EXCEPT !.notice = <<notice>>]

\* self.query_one(f"#notes-tree-{self.tab_manager.current_tab_index}", Tree)
TreeFound == TreeMounted(tabs, current_tab_index, current_tab_index)

CurTab == tabs[current_tab_index + 1]
CurTree == CurTab.tree

\* NoMatches leaves the handler: the application stops.
Crash(name) ==
    /\ crashed' = TRUE
    /\ op' = Op(name, -1, "none")
    /\ calls' = <<>>
    /\ UNCHANGED <<srv_vars, tab_vars, app_vars>>

SetTree(tree) == tabs' = [tabs EXCEPT ![current_tab_index + 1].tree = tree]

(***************************************************************************)
(* History.  session[t] records the fold level, the filter, the search and *)
(* the view mode that were in force when tab t was last the current tab:   *)
(* a new tab enters with the values in force once it is open, a closed     *)
(* tab leaves, a switch between tabs changes no entry, and any other       *)
(* handler records what it leaves in force for the current tab.            *)
(***************************************************************************)
InForce ==
    [fold |-> current_fold_level, filter |-> last_filter,
     search |-> last_search, flat |-> flat_view]

Track ==
    /\ session' =
          IF Len(tabs') = Len(tabs) + 1 THEN Append(session, InForce')
          ELSE IF Len(tabs') = Len(tabs) - 1 THEN RemoveAt(session, current_tab_index + 1)
          ELSE IF current_tab_index' # current_tab_index THEN session
          ELSE [session EXCEPT ![current_tab_index + 1] = InForce']
    /\ cycled' =
          IF op'.name = "fold_cycle" /\ ~crashed'
          THEN IF current_fold_level = 0 THEN 1
               ELSE IF cycled > 0 THEN cycled + 1 ELSE 0
          ELSE 0

\* on_mount: the first tab, folded to level 0.
on_mount(notes, fetched1, fetched2) ==
    LET made == create_new_tab(<<>>, 0, {}, notes, fetched1, fetched2)
    IN [tabs |-> [made.tabs EXCEPT ![made.idx + 1].tree = fold_to_level(@, 0)],
        idx |-> made.idx]

\* The application started against a service whose notes have the parents par.
InitWith(par) ==
    /\ Outside
    /\ arg_notes = <<>> /\ arg_query = <<>> /\ arg_ids = {}
    /\ ret = <<>> /\ fn = "none"
    /\ srv_parent = par
    /\ \E f1 \in Fetches, f2 \in Fetches :
          /\ tabs = on_mount(ServerTreeOf(par), f1, f2).tabs
          /\ current_tab_index = on_mount(ServerTreeOf(par), f1, f2).idx
    /\ current_fold_level = 0
    /\ last_filter = <<>>
    /\ last_search = <<>>
    /\ dialog_mode = "filter"
    /\ flat_view = FALSE
    /\ marked_for_move = {}
    /\ calls = <<>>
    /\ op = [name |-> "on_mount", arg |-> 0, fetch |-> "none", marked |-> {},
             hits |-> <<>>, notice |-> <<>>]
    /\ crashed = FALSE
    /\ session = <<InForce>>
    /\ cycled = 0

InitApp == InitWith(ChainParent)

(***************************************************************************)
(* Tabs                                                                    *)
(***************************************************************************)
TabStep(name, arg, fetched, result) ==
    /\ tabs' = result.tabs
    /\ current_tab_index' = result.idx
    /\ op' = Op(name, arg, fetched)
    /\ calls' = <<>>
    /\ UNCHANGED <<srv_vars, app_vars, crashed, pure_vars>>

action_new_tab ==
    /\ ~crashed
    /\ Len(tabs) < MaxTabs
    /\ \E f1 \in Fetches, f2 \in Fetches :
          TabStep("new_tab", Len(tabs), f2,
                  create_new_tab(tabs, current_tab_index, marked_for_move, ServerTree, f1, f2))
    /\ Track
    /\ UNCHANGED ext_vars

action_close_tab ==
    /\ ~crashed
    /\ \E f \in Fetches :
          TabStep("close_tab", current_tab_index, f,
                  close_current_tab(tabs, current_tab_index, marked_for_move, ServerTree, f))
    /\ Track
    /\ UNCHANGED ext_vars

action_next_tab ==
    /\ ~crashed
    /\ \E f \in Fetches :
          TabStep("next_tab", current_tab_index, f,
                  next_tab(tabs, current_tab_index, marked_for_move, ServerTree, f))
    /\ Track
    /\ UNCHANGED ext_vars

action_prev_tab ==
    /\ ~crashed
    /\ \E f \in Fetches :
          TabStep("prev_tab", current_tab_index, f,
                  previous_tab(tabs, current_tab_index, marked_for_move, ServerTree, f))
    /\ Track
    /\ UNCHANGED ext_vars

\* TabManager.switch_to_tab with any index, in range or not.
call_switch_to_tab ==
    /\ ~crashed
    /\ \E index \in -1..MaxTabs, f \in Fetches :
          TabStep("switch_to_tab", index, f,
                  switch_to_tab(tabs, current_tab_index, index, marked_for_move, ServerTree, f))
    /\ Track
    /\ UNCHANGED ext_vars

(***************************************************************************)
(* Refresh, cursor and folding                                             *)
(***************************************************************************)
\* refresh_notes: the same steps as refresh_current_tab, on the tree found.
refresh_notes(marked, notes, fetched) ==
    refresh_current_tab(tabs, current_tab_index, marked, notes, fetched)

action_refresh ==
    /\ ~crashed
    /\ IF ~TreeFound THEN Crash("refresh") /\ UNCHANGED pure_vars
       ELSE \E f \in Fetches :
               /\ tabs' = refresh_notes(marked_for_move, ServerTree, f)
               /\ op' = Op("refresh", -1, f)
               /\ calls' = <<>>
               /\ UNCHANGED <<srv_vars, current_tab_index, app_vars, crashed, pure_vars>>
    /\ Track
    /\ UNCHANGED ext_vars

\* action_cursor_down / action_cursor_up, any number of times: the cursor
\* goes to a line the widget shows.
action_cursor_move ==
    /\ ~crashed
    /\ IF ~TreeFound THEN Crash("cursor_move") /\ UNCHANGED pure_vars
       ELSE \E path \in VisiblePaths(CurTree) :
               /\ tabs' = [tabs EXCEPT ![current_tab_index + 1].cursor = path]
               /\ op' = Op("cursor_move", -1, "none")
               /\ calls' = <<>>
               /\ UNCHANGED <<srv_vars, current_tab_index, app_vars, crashed, pure_vars>>
    /\ Track
    /\ UNCHANGED ext_vars

ExpandCollapse(name, e) ==
    /\ ~crashed
    /\ IF ~TreeFound THEN Crash(name) /\ UNCHANGED pure_vars
       ELSE /\ IF CurTab.cursor # NoCursor
               THEN SetTree(SetExpandedAt(CurTree, CurTab.cursor, e))
               ELSE UNCHANGED tabs
            /\ op' = Op(name, -1, "none")
            /\ calls' = <<>>
            /\ UNCHANGED <<srv_vars, current_tab_index, app_vars, crashed, pure_vars>>
    /\ Track
    /\ UNCHANGED ext_vars

action_expand_node == ExpandCollapse("expand_node", TRUE)

action_collapse_node == ExpandCollapse("collapse_node", FALSE)

\* A fold handler's result: the tree, the level stored, and the level
\* _fold_to_level was called with (-1: it was not called).
FoldStep(name, tree, level, folded_to) ==
    /\ SetTree(tree)
    /\ current_fold_level' = level
    /\ op' = Op(name, folded_to, "none")
    /\ calls' = <<>>
    /\ UNCHANGED <<srv_vars, current_tab_index, last_filter, last_search,
                   dialog_mode, flat_view, marked_for_move, crashed, pure_vars>>

action_fold_cycle ==
    /\ ~crashed
    /\ IF ~TreeFound THEN Crash("fold_cycle") /\ UNCHANGED pure_vars
       ELSE LET level == IF current_fold_level = 0 THEN 1
                         ELSE current_fold_level * 2
                max_depth == get_max_depth(CurTree)
            IN IF level > max_depth
               THEN FoldStep("fold_cycle", collapse_all(CurTree), 0, -1)
               ELSE FoldStep("fold_cycle", fold_to_level(CurTree, level), level, level)
    /\ Track
    /\ UNCHANGED ext_vars

\* Half the level, rounded up.
halved_fold_level_up(level) == (level + 1) \div 2

\* self.current_fold_level //= 2
halved_fold_level(level) == level \div 2

action_fold_cycle_reverse ==
    /\ ~crashed
    /\ IF ~TreeFound THEN Crash("fold_cycle_reverse") /\ UNCHANGED pure_vars
       ELSE IF current_fold_level <= 1
            THEN FoldStep("fold_cycle_reverse", collapse_all(CurTree), 0, -1)
            ELSE LET level == halved_fold_level(current_fold_level)
                 IN FoldStep("fold_cycle_reverse", fold_to_level(CurTree, level),
                             level, level)
    /\ Track
    /\ UNCHANGED ext_vars

action_fold_to_first ==
    /\ ~crashed
    /\ IF ~TreeFound THEN Crash("fold_to_first") /\ UNCHANGED pure_vars
       ELSE FoldStep("fold_to_first", fold_to_level(CurTree, 1), 1, 1)
    /\ Track
    /\ UNCHANGED ext_vars

action_unfold_tree ==
    /\ ~crashed
    /\ IF ~TreeFound THEN Crash("unfold_tree") /\ UNCHANGED pure_vars
       ELSE LET tree == unfold_node(CurTree)
            IN FoldStep("unfold_tree", tree, get_max_depth(tree), -1)
    /\ Track
    /\ UNCHANGED ext_vars

\* The tabs: opened, closed and switched, their trees unfolded, folded to
\* the first level and refreshed.
NextTabs ==
    \/ action_new_tab
    \/ action_close_tab
    \/ action_next_tab
    \/ action_prev_tab
    \/ call_switch_to_tab
    \/ action_refresh
    \/ action_fold_to_first
    \/ action_unfold_tree

SpecTabs == InitApp /\ [][NextTabs]_vars

\* One tab: its tree folded, unfolded, expanded and collapsed line by line,
\* and refreshed.
NextFold ==
    \/ action_refresh
    \/ action_cursor_move
    \/ action_expand_node
    \/ action_collapse_node
    \/ action_fold_cycle
    \/ action_fold_cycle_reverse
    \/ action_fold_to_first
    \/ action_unfold_tree

SpecFold == InitApp /\ [][NextFold]_vars

\* One tab over every forest the service may hold: the fold level cycled
\* forward and back, the tree unfolded and refreshed.
InitCycle == \E par \in Forests(AppNotes) : InitWith(par)

NextCycle ==
    \/ action_fold_cycle
    \/ action_fold_cycle_reverse
    \/ action_unfold_tree
    \/ action_refresh

SpecCycle == InitCycle /\ [][NextCycle]_vars

(***************************************************************************)
(* note_managers.filter_notes_by_ids, NotesApp._flatten_filtered_notes and *)
(* the sort of _apply_search.                                              *)
(***************************************************************************)
RECURSIVE filter_notes_by_ids_from(_, _, _)
filter_notes_by_ids_from(notes, matching_ids, i) ==
    IF i > Len(notes) THEN <<>>
    ELSE LET note == notes[i]
             filtered_children ==
                 IF note.children # <<>>
                 THEN filter_notes_by_ids_from(note.children, matching_ids, 1)
                 ELSE <<>>
             current_note ==
                 TreeNote(note.id, note.title, note.content, filtered_children)
         IN (IF note.id \in matching_ids \/ filtered_children # <<>>
             THEN <<current_note>> ELSE <<>>)
            \o filter_notes_by_ids_from(notes, matching_ids, i + 1)

\* A filter that keeps a note only for its own id.
RECURSIVE filter_notes_by_ids_own_id(_, _)
filter_notes_by_ids_own_id(notes, matching_ids) ==
    LET kept == SelectSeq(notes, LAMBDA note : note.id \in matching_ids)
    IN [i \in DOMAIN kept |->
           TreeNote(kept[i].id, kept[i].title, kept[i].content,
                    filter_notes_by_ids_own_id(kept[i].children, matching_ids))]

filter_notes_by_ids(notes, matching_ids) ==
    filter_notes_by_ids_from(notes, matching_ids, 1)

RECURSIVE collect_matches(_)
\* The notes collect_matches(note) appends to flattened.
collect_matches(note) ==
    IF note.children = <<>>
    THEN <<TreeNote(note.id, note.title, note.content, <<>>)>>
    ELSE LET RECURSIVE each(_)
             each(i) == IF i > Len(note.children) THEN <<>>
                        ELSE collect_matches(note.children[i]) \o each(i + 1)
         IN each(1)

RECURSIVE flatten_from(_, _)
flatten_from(notes, i) ==
    IF i > Len(notes) THEN <<>>
    ELSE collect_matches(notes[i]) \o flatten_from(notes, i + 1)

\* A flattening that emits every note, the ones with children too.
RECURSIVE flatten_every_note(_)
flatten_every_note(notes) ==
    IF notes = <<>> THEN <<>>
    ELSE <<TreeNote(notes[1].id, notes[1].title, notes[1].content, <<>>)>>
         \o flatten_every_note(notes[1].children)
         \o flatten_every_note(Tail(notes))

flatten_filtered_notes(notes) == flatten_from(notes, 1)

(***************************************************************************)
(* filter_notes_by_ids and flatten_filtered_notes applied to every bounded *)
(* input.                                                                  *)
(***************************************************************************)
CallFilterByIds ==
    /\ fn = "none"
    /\ \E matching_ids \in SUBSET (1..PureNotes) :
          /\ arg_ids' = matching_ids
          /\ ret' = filter_notes_by_ids(arg_notes, matching_ids)
    /\ fn' = "filter_notes_by_ids"
    /\ UNCHANGED <<arg_notes, arg_query>>
    /\ UNCHANGED <<srv_vars, tab_vars, app_vars, run_vars, session, cycled, ext_vars>>

\* _apply_filter in flat view: the filtered notes, flattened.
CallFlattenFiltered ==
    /\ fn = "none"
    /\ ret' = flatten_filtered_notes(filter_notes_by_query(arg_notes, arg_query))
    /\ fn' = "flatten_filtered_notes"
    /\ UNCHANGED <<arg_notes, arg_query, arg_ids>>
    /\ UNCHANGED <<srv_vars, tab_vars, app_vars, run_vars, session, cycled, ext_vars>>

NextProject == CallFilterByIds \/ CallFlattenFiltered

SpecProject == InitPure /\ [][NextProject]_vars

\* matching_ids of a ranked result: id -> position (0-based); Infinity for
\* an id that is not in it (float("inf")).
Infinity == 1000

RankOf(results, id) ==
    IF \E k \in DOMAIN results : results[k] = id
    THEN (CHOOSE k \in DOMAIN results : results[k] = id) - 1
    ELSE Infinity

SortKey(results, n) == IF n.children = <<>> THEN RankOf(results, n.id) ELSE -1

RECURSIVE InsertByKey(_, _, _)
\* x put into the sorted s behind every element whose key is not greater.
InsertByKey(s, x, results) ==
    IF s = <<>> THEN <<x>>
    ELSE IF SortKey(results, Head(s)) <= SortKey(results, x)
         THEN <<Head(s)>> \o InsertByKey(Tail(s), x, results)
         ELSE <<x>> \o s

RECURSIVE StableSort(_, _)
\* list.sort(key=...): stable, ascending.
StableSort(s, results) ==
    IF s = <<>> THEN <<>>
    ELSE InsertByKey(StableSort(SubSeq(s, 1, Len(s) - 1), results), s[Len(s)], results)

RECURSIVE sort_by_search_order(_, _)
sort_by_search_order(notes, results) ==
    LET sorted == StableSort(notes, results)
    IN [i \in DOMAIN sorted |->
           IF sorted[i].children # <<>>
           THEN [sorted[i] EXCEPT !.children = sort_by_search_order(@, results)]
           ELSE sorted[i]]

(***************************************************************************)
(* The overlay and the projections of NotesApp.                            *)
(***************************************************************************)
MaxHits == 2

\* What the user types into the overlay.
Inputs == { <<>>, <<"a">>, <<"b">> }

\* What search_notes may return: the ids of up to MaxHits notes, ranked.
Rankings ==
    {r \in UNION {[1..n -> AppIds] : n \in 0..MaxHits} :
        \A i \in DOMAIN r, j \in DOMAIN r : i # j => r[i] # r[j]}

\* The Note of a search result as a TreeNote without children; notes: what
\* the service holds.
ResultNote(notes, id) ==
    LET note == NoteWithId(notes, id)
    IN TreeNote(id, note.title, note.content, <<>>)

\* The tree after _apply_search has cleared it; searched, fetched: what
\* search_notes and get_notes_tree did; results: the ranked ids.
apply_search(tree, notes, marked, filter, flat, results, searched, fetched) ==
    LET cleared == tree_clear(tree)
        failed == searched = "fail" \/ (~flat /\ fetched = "fail")
        found ==
            IF flat THEN [k \in DOMAIN results |-> ResultNote(notes, results[k])]
            ELSE sort_by_search_order(
                     filter_notes_by_ids(notes, {results[k] : k \in DOMAIN results}),
                     results)
        filtered_notes ==
            IF filter # <<>> THEN filter_notes_by_query(found, filter) ELSE found
    IN IF failed THEN add_leaf(cleared, ErrorLabel("Error searching notes"))
       ELSE unfold_node([cleared EXCEPT !.children = populate_tree(filtered_notes, marked)])

\* The tree after _apply_filter(value) without an active search.
apply_filter(tree, notes, marked, value, flat, fetched) ==
    LET cleared == tree_clear(tree)
        by_query == filter_notes_by_query(notes, value)
        filtered_notes == IF flat THEN flatten_filtered_notes(by_query) ELSE by_query
    IN IF fetched = "fail" THEN add_leaf(cleared, ErrorLabel("Error filtering notes"))
       ELSE unfold_node([cleared EXCEPT !.children = populate_tree(filtered_notes, marked)])

\* The tree a handler leaves in the current tab when it rebuilds it by
\* which: "search" (_apply_search), "filter" (_apply_filter without an
\* active search) or "refresh" (refresh_notes), with the texts and the view
\* mode the handler has set before.
ProjectOf(notes, which, filter, flat, marked, results, searched, fetched) ==
    CASE which = "search" ->
           apply_search(CurTree, notes, marked, filter, flat,
                        results, searched, fetched)
      [] which = "filter" ->
           apply_filter(CurTree, notes, marked, filter, flat, fetched)
      [] OTHER ->
           refresh_notes(marked, notes, fetched)[current_tab_index + 1].tree

Project(which, filter, flat, marked, results, searched, fetched) ==
    ProjectOf(ServerTree, which, filter, flat, marked, results, searched, fetched)

\* Whether a request of that rebuild raised.
ProjectFailed(which, flat, searched, fetched) ==
    IF which = "search" THEN searched = "fail" \/ (~flat /\ fetched = "fail")
    ELSE fetched = "fail"

\* _apply_filter that filters the full tree whatever search is active.
FilterAlone(search) == "filter"

\* _apply_filter hands over to _apply_search while a search is active.
FilterOrSearch(search) == IF search # <<>> THEN "search" ELSE "filter"

SetTab(tree) ==
    tabs' = [tabs EXCEPT ![current_tab_index + 1].tree = tree,
                         ![current_tab_index + 1].cursor = NoCursor]

\* The rebuild of a handler that has sent the requests of log before and
\* to which the service answers with notes.
\* told: what the handler had passed to self.notify before the rebuild.
ProjectStepTold(name, told, notes, log, which, filter, flat, marked) ==
    \E results \in Rankings, searched \in Fetches, fetched \in Fetches :
       \* a request that is not issued has no outcome to choose
       /\ which # "search" => searched = "ok"
       /\ (which # "search" \/ searched = "fail") => results = <<>>
       /\ (which = "search" /\ (flat \/ searched = "fail")) => fetched = "ok"
       /\ SetTab(ProjectOf(notes, which, filter, flat, marked, results, searched, fetched))
       /\ op' = [Op(name, -1,
                      IF ProjectFailed(which, flat, searched, fetched)
                      THEN "fail" ELSE "ok")
                   EXCEPT !.hits = results, !.notice = told]
       /\ calls' = log
       /\ UNCHANGED <<srv_vars, current_tab_index, crashed, pure_vars>>

ProjectStepWith(name, notes, log, which, filter, flat, marked) ==
    ProjectStepTold(name, <<>>, notes, log, which, filter, flat, marked)

ProjectStep(name, which, filter, flat, marked) ==
    ProjectStepWith(name, ServerTree, <<>>, which, filter, flat, marked)

action_filter_notes ==
    /\ ~crashed
    /\ dialog_mode' = "filter"
    /\ op' = Op("filter_notes", -1, "none")
    /\ calls' = <<>>
    /\ UNCHANGED <<srv_vars, tab_vars, current_fold_level, last_filter, last_search,
                   flat_view, marked_for_move, crashed, pure_vars>>
    /\ Track
    /\ UNCHANGED ext_vars

action_search_notes ==
    /\ ~crashed
    /\ dialog_mode' = "search"
    /\ op' = Op("search_notes", -1, "none")
    /\ calls' = <<>>
    /\ UNCHANGED <<srv_vars, tab_vars, current_fold_level, last_filter, last_search,
                   flat_view, marked_for_move, crashed, pure_vars>>
    /\ Track
    /\ UNCHANGED ext_vars

\* The text a change of the dialog's input is stored in: always last_filter.
stored_text_filter(mode) == "last_filter"

\* handle_filter_change: the text a change of the dialog's input is stored in.
stored_text(mode) == IF mode = "search" THEN "last_search" ELSE "last_filter"

\* The text is stored before the tree is looked up.
handle_filter_change ==
    /\ ~crashed
    /\ \E value \in Inputs :
          /\ IF stored_text(dialog_mode) = "last_search"
             THEN last_search' = value /\ UNCHANGED last_filter
             ELSE last_filter' = value /\ UNCHANGED last_search
          /\ UNCHANGED <<current_fold_level, dialog_mode, flat_view, marked_for_move>>
          /\ IF ~TreeFound
             THEN /\ crashed' = TRUE
                  /\ op' = Op("handle_filter_change", -1, "none")
                  /\ calls' = <<>>
                  /\ UNCHANGED <<srv_vars, tab_vars, pure_vars>>
             ELSE ProjectStep("handle_filter_change",
                              IF value = <<>> THEN "refresh"
                              ELSE IF dialog_mode = "search" THEN "search"
                              ELSE FilterOrSearch(last_search),
                              last_filter', flat_view, marked_for_move)
    /\ Track
    /\ UNCHANGED ext_vars

action_toggle_flat_view ==
    /\ ~crashed
    /\ flat_view' = ~flat_view
    /\ UNCHANGED <<current_fold_level, last_filter, last_search, dialog_mode,
                   marked_for_move>>
    /\ IF ~TreeFound
       THEN /\ crashed' = TRUE
            /\ op' = Op("toggle_flat_view", -1, "none")
            /\ calls' = <<>>
            /\ UNCHANGED <<srv_vars, tab_vars, pure_vars>>
       ELSE ProjectStep("toggle_flat_view",
                        IF last_search # <<>> THEN "search"
                        ELSE IF last_filter # <<>> THEN "filter"
                        ELSE "refresh",
                        last_filter, flat_view', marked_for_move)
    /\ Track
    /\ UNCHANGED ext_vars

\* The overlay and the view mode, in one tab.
NextView ==
    \/ action_filter_notes
    \/ action_search_notes
    \/ handle_filter_change
    \/ action_toggle_flat_view
    \/ action_refresh

SpecView == InitApp /\ [][NextView]_vars

\* Two tabs, and the settings changed in either.
NextSessions ==
    \/ action_new_tab
    \/ action_next_tab
    \/ action_filter_notes
    \/ handle_filter_change
    \/ action_toggle_flat_view
    \/ action_fold_to_first

SpecSessions == InitApp /\ [][NextSessions]_vars

(***************************************************************************)
(* Moving notes.  A hierarchy request either takes effect on the service   *)
(* ("ok") or raises in the client and changes nothing ("fail").            *)
(***************************************************************************)
MaxMarked == 2

Results == {"ok", "fail"}

\* A detach raises for one of two reasons: the service answers that the note
\* has no parent to leave ("not_found"), or no answer arrives ("unreachable").
DetachResults == {"ok", "not_found", "unreachable"}

Call(kind, note, parent, result) ==
    [kind |-> kind, note |-> note, parent |-> parent, result |-> result]

attach_note_to_parent(par, child_note_id, parent_note_id, result) ==
    IF result = "ok" THEN [par EXCEPT ![child_note_id] = parent_note_id] ELSE par

detach_note_from_parent(par, note_id, result) ==
    IF result = "ok" THEN [par EXCEPT ![note_id] = 0] ELSE par

\* The parent entry of a note the service no longer has.
Deleted == -1

Gone(par, note_id) == note_id # 0 /\ par[note_id] = Deleted

RECURSIVE Above(_, _, _)
\* The notes met in at most k steps upwards from note in the hierarchy par.
Above(par, note, k) ==
    IF k = 0 \/ par[note] <= 0 THEN {}
    ELSE {par[note]} \cup Above(par, par[note], k - 1)

\* Whether note lies below ancestor in the hierarchy par.
Descends(par, note, ancestor) == ancestor \in Above(par, note, Cardinality(DOMAIN par))

\* NoteAPI.delete_note: the note leaves the service; the notes below it
\* leave with it (cascade) or become top-level notes.
delete_note(par, note_id, result, cascade) ==
    IF result # "ok" THEN par
    ELSE [i \in DOMAIN par |->
            IF i = note_id THEN Deleted
            ELSE IF Descends(par, i, note_id)
                 THEN (IF cascade THEN Deleted
                       ELSE IF par[i] = note_id THEN 0 ELSE par[i])
                 ELSE par[i]]

\* tree.cursor_node and isinstance(tree.cursor_node.data, api.TreeNote)
CursorNode == NodeAt(CurTree, CurTab.cursor)
CursorOnNote == CurTab.cursor # NoCursor /\ IsNote(CursorNode.data)

NoNoteSelected == <<"No note selected">>

\* A handler that returns after a notification.
Notified(name, severity, text) ==
    /\ op' = Told(Op(name, 0, "none"), Notice(severity, text))
    /\ calls' = <<>>
    /\ UNCHANGED <<srv_vars, tab_vars, app_vars, crashed, pure_vars>>

\* The orders in which a for loop may visit a set.
Orders(S) ==
    {order \in [1..Cardinality(S) -> S] :
        \A i, j \in DOMAIN order : i # j => order[i] # order[j]}

RECURSIVE paste_moves_retry(_, _, _, _, _, _, _)
\* The loop with an attach that is sent once more when it has raised.
paste_moves_retry(order, i, target_note_id, par, log, detached, attached) ==
    IF i > Len(order) THEN [par |-> par, calls |-> log, raised |-> FALSE]
    ELSE LET note_id == order[i]
             par1 == detach_note_from_parent(par, note_id, detached[note_id])
             log1 == Append(log, Call("detach", note_id, 0, detached[note_id]))
             log2 == Append(log1, Call("attach", note_id, target_note_id,
                                       attached[note_id]))
         IN IF target_note_id = 0
            THEN paste_moves_retry(order, i + 1, target_note_id, par1, log1,
                                   detached, attached)
            ELSE IF attached[note_id] # "ok"
            THEN [par |-> par1,
                  calls |-> Append(log2, Call("attach", note_id, target_note_id,
                                              attached[note_id])),
                  raised |-> TRUE]
            ELSE paste_moves_retry(order, i + 1, target_note_id,
                                   attach_note_to_parent(par1, note_id, target_note_id, "ok"),
                                   log2, detached, attached)

RECURSIVE paste_moves(_, _, _, _, _, _, _)
\* The loop of action_paste_as_children from the i-th marked note on: a
\* detach that raises is passed over, an attach that raises leaves the loop.
paste_moves(order, i, target_note_id, par, log, detached, attached) ==
    IF i > Len(order) THEN [par |-> par, calls |-> log, raised |-> FALSE]
    ELSE LET note_id == order[i]
             par1 == detach_note_from_parent(par, note_id, detached[note_id])
             log1 == Append(log, Call("detach", note_id, 0, detached[note_id]))
             log2 == Append(log1, Call("attach", note_id, target_note_id,
                                       attached[note_id]))
         IN IF target_note_id = 0
            THEN paste_moves(order, i + 1, target_note_id, par1, log1,
                             detached, attached)
            ELSE IF attached[note_id] # "ok"
            THEN [par |-> par1, calls |-> log2, raised |-> TRUE]
            ELSE paste_moves(order, i + 1, target_note_id,
                             attach_note_to_parent(par1, note_id, target_note_id, "ok"),
                             log2, detached, attached)

action_mark_for_move ==
    /\ ~crashed
    /\ IF ~TreeFound THEN Crash("mark_for_move") /\ UNCHANGED pure_vars
       ELSE IF ~CursorOnNote THEN Notified("mark_for_move", "warning", NoNoteSelected)
       ELSE LET id == CursorNode.data.id
            IN /\ id \notin marked_for_move => Cardinality(marked_for_move) < MaxMarked
               /\ marked_for_move' = IF id \in marked_for_move
                                     THEN marked_for_move \ {id}
                                     ELSE marked_for_move \cup {id}
               /\ UNCHANGED <<current_fold_level, last_filter, last_search,
                              dialog_mode, flat_view>>
               /\ ProjectStepTold(
                     "mark_for_move",
                     <<Notice("information",
                              <<IF id \in marked_for_move THEN "Unmarked note: "
                                ELSE "Marked note: ">> \o CursorNode.data.title)>>,
                     ServerTree, <<>>,
                     IF last_filter # <<>> THEN FilterOrSearch(last_search)
                     ELSE IF last_search # <<>> THEN "search"
                     ELSE "refresh",
                     last_filter, flat_view, marked_for_move')
    /\ Track
    /\ UNCHANGED ext_vars

action_paste_as_children ==
    /\ ~crashed
    /\ IF marked_for_move = {}
       THEN Notified("paste", "warning", <<"No notes marked for moving">>)
       ELSE IF ~TreeFound THEN Crash("paste") /\ UNCHANGED pure_vars
       ELSE LET target_note_id == IF CursorOnNote THEN CursorNode.data.id ELSE 0
            IN \E order \in Orders(marked_for_move),
                  detached \in [marked_for_move -> DetachResults],
                  attached \in [marked_for_move -> Results],
                  f \in Fetches :
                  LET moved == paste_moves(order, 1, target_note_id, srv_parent, <<>>,
                                           detached, attached)
                  IN \* a request that is not issued has no outcome to choose
                     /\ target_note_id = 0 => \A m \in marked_for_move : attached[m] = "ok"
                     \* the service has no note to detach or to attach
                     /\ \A m \in marked_for_move :
                           Gone(srv_parent, m) =>
                              /\ detached[m] = "not_found"
                              /\ target_note_id # 0 => attached[m] = "fail"
                     /\ moved.raised => f = "ok"
                     /\ srv_parent' = moved.par
                     /\ calls' = moved.calls
                     /\ IF moved.raised
                        THEN /\ op' = Told(Op("paste", target_note_id, "none"),
                                           Notice("error", <<"Error moving notes: ">>))
                             /\ UNCHANGED <<tabs, marked_for_move>>
                        ELSE /\ op' = Told(Op("paste", target_note_id, f),
                                           Notice("information",
                                                  <<"Moved notes to ",
                                                    IF target_note_id = 0
                                                    THEN "root level"
                                                    ELSE "selected note">>))
                             /\ marked_for_move' = {}
                             /\ tabs' = refresh_notes({}, ServerTreeOf(moved.par), f)
                     /\ UNCHANGED <<current_tab_index, current_fold_level, last_filter,
                                    last_search, dialog_mode, flat_view, crashed, pure_vars>>
    /\ Track
    /\ UNCHANGED ext_vars

\* create_note is not a method of NoteAPI: the call raises AttributeError
\* inside the try, and so does a failed lookup of the tree.
action_new_note ==
    /\ ~crashed
    /\ op' = Told(Op("new_note",
                     IF TreeFound /\ CursorOnNote THEN CursorNode.data.id ELSE 0,
                     "none"),
                  Notice("error", <<"Error creating note: ">>))
    /\ calls' = <<>>
    /\ UNCHANGED <<srv_vars, tab_vars, app_vars, crashed, pure_vars>>
    /\ Track
    /\ UNCHANGED ext_vars

\* What a structural handler leaves: the parents, the requests, and the
\* refresh that follows unless a request raised out of it.
\* done: what the handler tells when no request raised; failed: what its
\* except clause tells.
Restructured(name, id, par, log, raised, done, failed) ==
    \E f \in Fetches :
       /\ raised => f = "ok"
       /\ srv_parent' = par
       /\ calls' = log
       /\ IF raised
          THEN /\ op' = Told(Op(name, id, "none"), Notice("error", failed))
               /\ UNCHANGED tabs
          ELSE /\ op' = Told(Op(name, id, f), Notice("information", done))
               /\ tabs' = refresh_notes(marked_for_move, ServerTreeOf(par), f)
       /\ UNCHANGED <<current_tab_index, app_vars, crashed, pure_vars>>

\* A promote that takes the parent for the grandparent.
grandparent_note_id_mut(tree, cursor) ==
    NodeAt(tree, SubSeq(cursor, 1, Len(cursor) - 1)).data.id

\* The id of the note two levels above the cursor; 0 when that node is the
\* root of the tree.
grandparent_note_id(tree, cursor) ==
    IF Len(cursor) > 2
    THEN NodeAt(tree, SubSeq(cursor, 1, Len(cursor) - 2)).data.id
    ELSE 0

action_promote_note ==
    /\ ~crashed
    /\ IF ~TreeFound THEN Crash("promote") /\ UNCHANGED pure_vars
       ELSE IF ~CursorOnNote THEN Notified("promote", "warning", NoNoteSelected)
       ELSE IF Len(CurTab.cursor) < 2
            THEN Notified("promote", "warning", <<"Note is already at root level">>)
       ELSE LET cursor == CurTab.cursor
                current_note == CursorNode.data
                grandparent == grandparent_note_id(CurTree, cursor)
            IN \E d \in DetachResults, a \in Results :
                  LET par1 == detach_note_from_parent(srv_parent, current_note.id, d)
                      attaches == d = "ok" /\ grandparent # 0
                  IN /\ ~attaches => a = "ok"
                     /\ Restructured(
                           "promote", current_note.id,
                           IF attaches
                           THEN attach_note_to_parent(par1, current_note.id, grandparent, a)
                           ELSE par1,
                           <<Call("detach", current_note.id, 0, d)>> \o
                              (IF attaches
                               THEN <<Call("attach", current_note.id, grandparent, a)>>
                               ELSE <<>>),
                           d # "ok" \/ a # "ok",
                           IF grandparent # 0
                           THEN <<"Promoted note: ">> \o current_note.title
                           ELSE <<"Note moved to root level: ">> \o current_note.title,
                           <<"Error promoting note: ">>)
    /\ Track
    /\ UNCHANGED ext_vars

\* siblings[current_index - 1] taken without the test for the first sibling:
\* the index -1 is the last sibling.
previous_sibling_index_wrapping(tree, cursor) ==
    IF cursor[Len(cursor)] = 1
    THEN Len(NodeAt(tree, SubSeq(cursor, 1, Len(cursor) - 1)).children)
    ELSE cursor[Len(cursor)] - 1

\* The first sibling taken for the previous one.
previous_sibling_index_first(tree, cursor) ==
    IF cursor[Len(cursor)] = 1 THEN 0 ELSE 1

\* The place of the sibling before the cursor among the children of its
\* parent (1: the first child); 0 when the cursor is on the first child.
previous_sibling_index(tree, cursor) == cursor[Len(cursor)] - 1

action_demote_note ==
    /\ ~crashed
    /\ IF ~TreeFound THEN Crash("demote") /\ UNCHANGED pure_vars
       ELSE IF ~CursorOnNote THEN Notified("demote", "warning", NoNoteSelected)
       ELSE IF previous_sibling_index(CurTree, CurTab.cursor) = 0
            THEN Notified("demote", "warning", <<"No previous sibling to attach to">>)
       ELSE LET cursor == CurTab.cursor
                current_note == CursorNode.data
                previous_sibling ==
                    NodeAt(CurTree, SubSeq(cursor, 1, Len(cursor) - 1)
                                    \o <<previous_sibling_index(CurTree, cursor)>>)
            IN IF ~IsNote(previous_sibling.data)
               THEN Notified("demote", "information",
                             <<"Error demoting note: previous sibling is not a note">>)
               ELSE \E d \in DetachResults, a \in Results :
                       LET previous_note == previous_sibling.data
                           par1 == detach_note_from_parent(srv_parent, current_note.id, d)
                       IN Restructured(
                             "demote", current_note.id,
                             attach_note_to_parent(par1, current_note.id,
                                                   previous_note.id, a),
                             <<Call("detach", current_note.id, 0, d),
                               Call("attach", current_note.id, previous_note.id, a)>>,
                             a # "ok",
                             <<"Demoted note under: ">> \o previous_note.title,
                             <<"Error demoting note: ">>)
    /\ Track
    /\ UNCHANGED ext_vars

\* The viewer of the tab is looked up by the same index as its tree.
action_delete_note ==
    /\ ~crashed
    /\ IF ~TreeFound THEN Crash("delete") /\ UNCHANGED pure_vars
       ELSE IF ~CursorOnNote THEN Notified("delete", "warning", NoNoteSelected)
       ELSE LET note == CursorNode.data
            IN \E r \in Results, cascade \in BOOLEAN, f \in Fetches :
                  /\ r # "ok" => (f = "ok" /\ ~cascade)
                  /\ Gone(srv_parent, note.id) => r = "fail"
                  /\ srv_parent' = delete_note(srv_parent, note.id, r, cascade)
                  /\ calls' = <<Call("delete", note.id, 0, r)>>
                  /\ IF r # "ok"
                     THEN /\ op' = Told(Op("delete", note.id, "none"),
                                        Notice("error", <<"Error deleting note: ">>))
                          /\ UNCHANGED tabs
                     ELSE /\ op' = Told(Op("delete", note.id, f),
                                        Notice("information",
                                               <<"Deleted note: ">> \o note.title))
                          /\ tabs' = refresh_notes(marked_for_move,
                                                   ServerTreeOf(srv_parent'), f)
                  /\ UNCHANGED <<current_tab_index, app_vars, crashed, pure_vars>>
    /\ Track
    /\ UNCHANGED ext_vars

\* One tab: the structural handlers.
NextMove ==
    \/ action_cursor_move
    \/ action_unfold_tree
    \/ action_promote_note
    \/ action_demote_note
    \/ action_new_note

SpecMove == InitApp /\ [][NextMove]_vars

\* One tab over notes that start at top level: marking and pasting.
NextPaste ==
    \/ action_cursor_move
    \/ action_mark_for_move
    \/ action_paste_as_children

InitPaste == InitWith(FlatParent)

SpecPaste == InitPaste /\ [][NextPaste]_vars

\* Marking and pasting while tabs open, close and change.
NextPasteTabs ==
    \/ action_new_tab
    \/ action_next_tab
    \/ action_prev_tab
    \/ call_switch_to_tab
    \/ action_close_tab
    \/ action_cursor_move
    \/ action_mark_for_move
    \/ action_paste_as_children

SpecPasteTabs == InitApp /\ [][NextPasteTabs]_vars

(***************************************************************************)
(* Reading a widget tree.                                                  *)
(***************************************************************************)
Expanded(tree, path) == NodeAt(tree, path).expanded

Prefixes(path) == {SubSeq(path, 1, k) : k \in 0..Len(path)}

\* The labels of the nodes that are expanded and have only expanded ancestors.
ShownExpandedLabels(tree) ==
    {NodeAt(tree, p).label :
        p \in {q \in PathsOf(tree) : \A r \in Prefixes(q) : Expanded(tree, r)}}

FoldNames == {"fold_cycle", "fold_cycle_reverse", "fold_to_first"}

TabIndexOk(ts, idx) == Len(ts) >= 1 /\ 0 <= idx /\ idx < Len(ts)

C7_InheritsNothing ==
    op.name = "new_tab" =>
        \A p \in PathsOf(CurTree) \ {<<>>} : ~Expanded(CurTree, p)

(***************************************************************************)
(* C7, amended: the tree of a tab that create_new_tab has just made has    *)
(* its root expanded, and a node below the root is expanded exactly if its *)
(* label is the label of a node that was expanded, with all its ancestors, *)
(* in the tree mounted before, provided that tree carried the id           *)
(* "notes-tree-<n - 1>" for the n tabs open before; no node below the root *)
(* is expanded when it did not.                                            *)
(***************************************************************************)
C7_NewTabInheritsByLabel ==
    [][op'.name = "new_tab" =>
          LET inherited ==
                  IF tabs[current_tab_index + 1].tree_id = Len(tabs) - 1
                  THEN ShownExpandedLabels(CurTree) ELSE {}
          IN /\ Len(tabs') = Len(tabs) + 1
             /\ current_tab_index' = Len(tabs)
             /\ Expanded(CurTree', <<>>)
             /\ \A p \in PathsOf(CurTree') \ {<<>>} :
                   Expanded(CurTree', p) <=> NodeAt(CurTree', p).label \in inherited]_vars

\* A new tab that shows notes, one of them expanded.
C7_Witness ==
    /\ op.name = "new_tab"
    /\ op.fetch = "ok"
    /\ \E p \in PathsOf(CurTree) \ {<<>>} :
          Expanded(CurTree, p) /\ IsNote(NodeAt(CurTree, p).data)

(***************************************************************************)
(* C8: a refresh of the current tab, or of a tab switched to, whose fetch  *)
(* succeeds and returns the notes the tree already shows leaves every node *)
(* as expanded or collapsed as it was.                                     *)
(***************************************************************************)
RefreshNames == {"refresh", "next_tab", "prev_tab", "switch_to_tab"}

C8_RefreshKeepsExpansion ==
    [][(/\ op'.name \in RefreshNames
        /\ op'.fetch = "ok"
        /\ Len(tabs') = Len(tabs)
        /\ PathsOf(CurTree') = PathsOf(tabs[current_tab_index' + 1].tree)) =>
          \A p \in PathsOf(CurTree') :
              Expanded(CurTree', p) = Expanded(tabs[current_tab_index' + 1].tree, p)]_vars



(***************************************************************************)
(* C5: fold level, last_filter, last_search and flat_view belong to the    *)
(* session: whichever tab is current, the values in force are those that   *)
(* were in force when that tab was last current, so that a change made     *)
(* while another tab was active has not reached it.                        *)
(***************************************************************************)
C5_PerSession ==
    ~crashed => session[current_tab_index + 1] = InForce

(***************************************************************************)
(* C9: after a handler whose tree fetch or search request failed, the      *)
(* application has not stopped (every handler is still enabled) and the    *)
(* current tab's tree holds exactly one node under the root, a leaf that   *)
(* carries no note and reads as an error.                                  *)
(***************************************************************************)
ErrorLabels ==
    {ErrorLabel(what) : what \in {"Error loading notes", "Error searching notes",
                                  "Error filtering notes"}}

IsErrorLeaf(node) ==
    /\ node.label \in ErrorLabels
    /\ ~IsNote(node.data)
    /\ node.children = <<>>

C9_FetchFailureShown ==
    op.fetch = "fail" =>
       /\ ~crashed
       /\ Len(CurTree.children) = 1
       /\ IsErrorLeaf(CurTree.children[1])

\* A failure of each kind has been rendered over a tree that held notes.
C9_Witness ==
    /\ op.name = "handle_filter_change"
    /\ op.fetch = "fail"
    /\ last_search # <<>>
    /\ ~flat_view
    /\ Len(CurTree.children) = 1
    /\ CurTree.children[1].label = ErrorLabel("Error searching notes")


(***************************************************************************)
(* Reading the requests of the last handler.                               *)
(***************************************************************************)
Called(kind, note, parent) ==
    \E k \in DOMAIN calls :
       calls[k].kind = kind /\ calls[k].note = note /\ calls[k].parent = parent

AllSucceeded == \A k \in DOMAIN calls : calls[k].result = "ok"

RECURSIVE MovesOf(_, _)
\* For each id of order in turn: one detach, then one attach to target
\* unless target is 0, every one of them answered.
MovesOf(order, target) ==
    IF order = <<>> THEN <<>>
    ELSE <<Call("detach", order[1], 0, "ok")>>
         \o (IF target # 0 THEN <<Call("attach", order[1], target, "ok")>> ELSE <<>>)
         \o MovesOf(Tail(order), target)

\* The notes a tree holds under its root are those of the forest notes.
Shows(tree, notes) ==
    [i \in DOMAIN tree.children |-> tree.children[i].data] = notes

(***************************************************************************)
(* C2: after pasteAsChildren has run over a non-empty marked set, every    *)
(* marked note has been sent a detach and, when the cursor was on a note,  *)
(* an attach to that note, whichever of the requests for the other marked  *)
(* notes failed.                                                           *)
(***************************************************************************)
C2_PasteBestEffort ==
    (op.name = "paste" /\ op.marked # {} /\ ~crashed) =>
       \A m \in op.marked :
          /\ Called("detach", m, 0)
          /\ op.arg # 0 => Called("attach", m, op.arg)

(***************************************************************************)
(* C3: after pasteAsChildren has run over a non-empty marked set with no   *)
(* request failing, the requests sent are, for each marked id in some      *)
(* order, one detach followed by one attach to the note under the cursor   *)
(* (the detach alone when the cursor is on no note), none of them is a     *)
(* delete, marked_for_move is empty and the tree shows what the service    *)
(* holds.                                                                  *)
(***************************************************************************)
C3_PasteAllSucceed ==
    (op.name = "paste" /\ op.marked # {} /\ AllSucceeded /\ op.fetch # "fail") =>
       /\ \E order \in Orders(op.marked) : calls = MovesOf(order, Max(op.arg, 0))
       /\ \A k \in DOMAIN calls : calls[k].kind # "delete"
       /\ marked_for_move = {}
       /\ op.fetch = "ok"
       /\ Shows(CurTree, ServerTree)

(***************************************************************************)
(* C10: a step of promote, demote or createNote that sent a request either *)
(* had a request fail and left the parent of the note it acts on as it     *)
(* was, or had every request answered and refreshed the current tab.       *)
(***************************************************************************)
StructuralNames == {"promote", "demote", "new_note"}

C10_Atomic ==
    [][(op'.name \in StructuralNames /\ calls' # <<>>) =>
          IF \E k \in DOMAIN calls' : calls'[k].result # "ok"
          THEN srv_parent'[op'.arg] = srv_parent[op'.arg]
          ELSE op'.fetch # "none"]_vars


(***************************************************************************)
(* C11: in pasteAsChildren and demote a detach that fails for any reason   *)
(* other than the note having no parent is not passed over: no request     *)
(* follows it and the handler ends in its error branch, without a refresh. *)
(***************************************************************************)
DetachFirstNames == {"paste", "demote"}

C11_OnlyNotFoundSwallowed ==
    op.name \in DetachFirstNames =>
       \A k \in DOMAIN calls :
          (calls[k].kind = "detach" /\ calls[k].result = "unreachable") =>
              k = Len(calls) /\ op.fetch = "none"


C14_DemoteUnderPrevious ==
    [][(/\ op'.name = "demote"
        /\ ~crashed'
        /\ CursorOnNote
        /\ CurTab.cursor[Len(CurTab.cursor)] > 1) =>
          LET cursor == CurTab.cursor
              id == CursorNode.data.id
              before == NodeAt(CurTree, SubSeq(cursor, 1, Len(cursor) - 1)
                                        \o <<cursor[Len(cursor)] - 1>>).data.id
          IN /\ Len(calls') = 2
             /\ \E d \in DetachResults : calls'[1] = Call("detach", id, 0, d)
             /\ \E a \in Results : calls'[2] = Call("attach", id, before, a)
             /\ calls'[2].result = "ok" =>
                   /\ srv_parent'[id] = before
                   /\ \A n \in AppIds \ {id} : srv_parent'[n] = srv_parent[n]
                   /\ op'.fetch # "none"
                   /\ op'.fetch = "ok" => Shows(CurTree', ServerTree')]_vars

\* The third of three top-level notes has become a child of the second.
C14_Witness ==
    /\ op.name = "demote"
    /\ op.arg = 3
    /\ Len(calls) = 2
    /\ AllSucceeded
    /\ calls[2].parent = 2
    /\ srv_parent = <<0, 0, 2>>
    /\ op.fetch = "ok"


TabNames == {"new_tab", "close_tab", "next_tab", "prev_tab", "switch_to_tab"}

\* Every note of the tree carries the mark prefix exactly when it is marked.
MarksRendered(tree, marked) ==
    \A p \in PathsOf(tree) :
       LET node == NodeAt(tree, p)
       IN IsNote(node.data) =>
             node.label = IF node.data.id \in marked
                          THEN MarkPrefix \o node.data.title
                          ELSE node.data.title

(***************************************************************************)
(* C15: creating a tab, switching to a tab, going to the next or previous  *)
(* tab and closing the current tab leave marked_for_move unchanged, and    *)
(* the tab shown after the step, once its notes were fetched, carries the  *)
(* mark prefix on exactly the marked notes, in whichever tab they were     *)
(* marked.                                                                 *)
(***************************************************************************)
C15_MarksSharedAcrossTabs ==
    [][op'.name \in TabNames =>
          /\ marked_for_move' = marked_for_move
          /\ (/\ op'.fetch = "ok"
              /\ op'.name = "switch_to_tab" => op'.arg \in 0..(Len(tabs) - 1)
              /\ op'.name = "close_tab" => Len(tabs) > 1)
             => MarksRendered(CurTree', marked_for_move)]_vars

\* A note marked in the first tab is shown marked in the tab just created.
C15_Witness ==
    /\ op.name = "new_tab"
    /\ current_tab_index = 1
    /\ op.fetch = "ok"
    /\ marked_for_move # {}
    /\ \E p \in PathsOf(CurTree) :
          /\ IsNote(NodeAt(CurTree, p).data)
          /\ NodeAt(CurTree, p).data.id \in marked_for_move
          /\ NodeAt(CurTree, p).label = MarkPrefix \o NodeAt(CurTree, p).data.title


(***************************************************************************)
(* C18: filter_notes_by_query with the empty query returns the list it was *)
(* given: the same notes with the same children in the same order.         *)
(***************************************************************************)
C18_EmptyQueryIdentity ==
    (fn = "filter_notes_by_query" /\ arg_query = <<>>) => ret = arg_notes

\* The empty query was applied to a tree with a nested note.
C18_Witness ==
    /\ fn = "filter_notes_by_query"
    /\ arg_query = <<>>
    /\ \E n \in NodeSet(arg_notes) : n.children # <<>>
    /\ ret = arg_notes


RetainedById(notes, S) ==
    {n.id : n \in {m \in NodeSet(notes) :
                      m.id \in S \/ \E d \in NodeSet(m.children) : d.id \in S}}

(***************************************************************************)
(* C16: the result of filter_notes_by_ids holds exactly the notes of the   *)
(* input whose id is in the set or that have a descendant whose id is in   *)
(* the set; each kept note keeps its title and content and exactly its     *)
(* kept children, in the order of the input, and so does the top level.    *)
(***************************************************************************)
C16_FilterByIdsExact ==
    fn = "filter_notes_by_ids" =>
        LET keep == RetainedById(arg_notes, arg_ids)
        IN /\ IdsOf(ret) = keep
           /\ IdSeq(ret) = KeepOnly(IdSeq(arg_notes), keep)
           /\ \A r \in NodeSet(ret) :
                 LET n == NoteWithId(arg_notes, r.id)
                 IN /\ r.title = n.title
                    /\ r.content = n.content
                    /\ IdSeq(r.children) = KeepOnly(IdSeq(n.children), keep)

\* A kept ancestor whose id is not in the set, beside a dropped sibling.
C16_Witness ==
    /\ fn = "filter_notes_by_ids"
    /\ \E r \in NodeSet(ret) : r.id \notin arg_ids /\ r.children # <<>>
    /\ \E n \in NodeSet(arg_notes) : n.id \notin IdsOf(ret)
    /\ ret # <<>>

RECURSIVE PreOrder(_)
\* Every note of a forest in depth-first order, parents before children.
PreOrder(notes) ==
    IF notes = <<>> THEN <<>>
    ELSE <<notes[1]>> \o PreOrder(notes[1].children) \o PreOrder(Tail(notes))

(***************************************************************************)
(* C17: flattening the result of filter_notes_by_query gives exactly the   *)
(* notes of that result that have no children in it, in depth-first order, *)
(* each with empty children; for a non-empty query each of them matches    *)
(* the query.                                                              *)
(***************************************************************************)
C17_FlattenLeavesInOrder ==
    fn = "flatten_filtered_notes" =>
        LET filtered == filter_notes_by_query(arg_notes, arg_query)
        IN /\ ret = SelectSeq(PreOrder(filtered), LAMBDA n : n.children = <<>>)
           /\ \A k \in DOMAIN ret :
                 /\ ret[k].children = <<>>
                 /\ Matches(ret[k], arg_query)

\* Two notes at different depths are emitted, and a matching note is left
\* out because a child of it was kept.
C17_Witness ==
    /\ fn = "flatten_filtered_notes"
    /\ arg_query # <<>>
    /\ Len(ret) = 2
    /\ LET filtered == filter_notes_by_query(arg_notes, arg_query)
       IN /\ \E n \in NodeSet(filtered) : n.children # <<>> /\ Matches(n, arg_query)
          /\ Len(filtered) = 2


\* The smallest j with 2^j >= n.
CeilLog2(n) == CHOOSE j \in 0..n : 2^j >= n /\ \A i \in 0..(j - 1) : 2^i < n

\* The depth of the deepest node of a tree, the root at depth 0.
MaxLeafDepth(tree) ==
    CHOOSE d \in {Len(p) : p \in PathsOf(tree)} :
       \A p \in PathsOf(tree) : Len(p) <= d

(***************************************************************************)
(* C19: in a run of fold_cycle steps that starts at fold level 0 on a tree *)
(* whose deepest leaf is at depth D, the fold level is 0 again after       *)
(* ceil(log2(D+1))+1 steps, and not before.                                *)
(***************************************************************************)
C19_CycleWraps ==
    (op.name = "fold_cycle" /\ ~crashed /\ cycled > 0) =>
        (current_fold_level = 0 <=> cycled = CeilLog2(MaxLeafDepth(CurTree) + 1) + 1)

\* The third step of a run on a tree of depth 2 has brought the level to 0.
C19_Witness ==
    /\ op.name = "fold_cycle"
    /\ ~crashed
    /\ cycled = 3
    /\ MaxLeafDepth(CurTree) = 2
    /\ current_fold_level = 0

(***************************************************************************)
(* C20: a fold_cycle that found the tree takes 1 after level 0 and twice   *)
(* the level otherwise; when that is more than the depth of the deepest    *)
(* leaf the level becomes 0 and every node of the tree is collapsed,       *)
(* otherwise _fold_to_level is run with it and it is stored.               *)
(***************************************************************************)
C20_FoldCycle ==
    [][(op'.name = "fold_cycle" /\ ~crashed') =>
          LET new == IF current_fold_level = 0 THEN 1 ELSE 2 * current_fold_level
          IN IF new > MaxLeafDepth(CurTree)
             THEN /\ current_fold_level' = 0
                  /\ op'.arg = -1
                  /\ PathsOf(CurTree') = PathsOf(CurTree)
                  /\ \A p \in PathsOf(CurTree') : ~NodeAt(CurTree', p).expanded
             ELSE /\ current_fold_level' = new
                  /\ op'.arg = new
                  /\ PathsOf(CurTree') = PathsOf(CurTree)
                  /\ \A p \in PathsOf(CurTree') :
                        /\ Len(p) <= new => NodeAt(CurTree', p).expanded
                        /\ Len(p) = new + 1 => ~NodeAt(CurTree', p).expanded]_vars

\* On a tree of depth 3 the level 1 was doubled to 2 and applied.
C20_Witness ==
    /\ op.name = "fold_cycle"
    /\ ~crashed
    /\ current_fold_level = 2
    /\ op.arg = 2
    /\ MaxLeafDepth(CurTree) = 3
    /\ NodeAt(CurTree, <<1, 1>>).expanded
    /\ ~NodeAt(CurTree, <<1, 1, 1>>).expanded


(***************************************************************************)
(* C21: a fold_cycle_reverse that found the tree sets the level to 0 and   *)
(* collapses every node when the level is 0 or 1; otherwise it stores the  *)
(* level halved, rounded down, and runs _fold_to_level with it.            *)
(***************************************************************************)
C21_FoldCycleReverse ==
    [][(op'.name = "fold_cycle_reverse" /\ ~crashed') =>
          IF current_fold_level <= 1
          THEN /\ current_fold_level' = 0
               /\ op'.arg = -1
               /\ PathsOf(CurTree') = PathsOf(CurTree)
               /\ \A p \in PathsOf(CurTree') : ~NodeAt(CurTree', p).expanded
          ELSE LET new == CHOOSE n \in 0..current_fold_level :
                             2 * n <= current_fold_level /\ current_fold_level < 2 * (n + 1)
               IN /\ current_fold_level' = new
                  /\ op'.arg = new
                  /\ PathsOf(CurTree') = PathsOf(CurTree)
                  /\ \A p \in PathsOf(CurTree') :
                        /\ Len(p) <= new => NodeAt(CurTree', p).expanded
                        /\ Len(p) = new + 1 => ~NodeAt(CurTree', p).expanded]_vars

\* On a tree of depth 3 a level was halved to 1 and applied.
C21_Witness ==
    /\ op.name = "fold_cycle_reverse"
    /\ ~crashed
    /\ current_fold_level = 1
    /\ op.arg = 1
    /\ MaxLeafDepth(CurTree) = 3
    /\ NodeAt(CurTree, <<1>>).expanded
    /\ ~NodeAt(CurTree, <<1, 1>>).expanded


(***************************************************************************)
(* The channel to the preview.  A message is the sequence of the tokens    *)
(* of its text; a connection holds what each recv(1024) on it returns,     *)
(* in order, before the end of the stream.                                 *)
(***************************************************************************)
MaxAttempts == 2
MaxBacklog == 2

SocketPath == "/tmp/markdown_preview.sock"

IdStr(i) ==
    CASE i = 1 -> "1" [] i = 2 -> "2" [] i = 3 -> "3" [] i = 4 -> "4"
      [] OTHER -> "9"

\* json.dumps({"command": command, "note_id": note_id}).encode()
json_dumps(command, note_id) ==
    <<"{", "command", command, "note_id", IdStr(note_id), "}">>

\* int or None of a JSON value.
IntOf(value) ==
    CASE value = "1" -> 1 [] value = "2" -> 2 [] value = "3" -> 3
      [] value = "4" -> 4 [] value = "9" -> 9 [] OTHER -> 0

\* message.get(key) of a decoded object: "null" for None.
json_get(tokens, key) ==
    LET at == {i \in 2..(Len(tokens) - 2) : i % 2 = 0 /\ tokens[i] = key}
    IN IF at = {} THEN "null" ELSE tokens[(CHOOSE i \in at : TRUE) + 1]

\* json.loads(data.decode()): an object, another JSON value, or the
\* exception raised.
json_loads(tokens) ==
    IF tokens # <<>> /\ tokens[1] = "\\xff" THEN [kind |-> "UnicodeDecodeError"]
    ELSE IF Len(tokens) >= 2 /\ tokens[1] = "{" /\ tokens[Len(tokens)] = "}"
            /\ Len(tokens) % 2 = 0
         THEN [kind |-> "object"]
    ELSE IF tokens = <<"[", "]">> THEN [kind |-> "array"]
    ELSE [kind |-> "JSONDecodeError"]

\* A connection attempt: who made it, for which note, and how it ended.
Attempt(by, note, result) == [by |-> by, note |-> note, result |-> result]

Conn(tag, chunks) == [tag |-> tag, chunks |-> chunks]

(***************************************************************************)
(* NotesApp: the preview connection                                        *)
(***************************************************************************)
SendResults == {"ok", "broken"}

\* The message written twice.
sendall_twice(note_id, sent) ==
    IF sent = "ok"
    THEN <<json_dumps("set_note", note_id), json_dumps("set_note", note_id)>>
    ELSE <<>>

\* What the connection carries after sock.sendall(message.encode()) and the
\* close at the end of the with block.
sendall(note_id, sent) ==
    IF sent = "ok" THEN <<json_dumps("set_note", note_id)>> ELSE <<>>

\* What connect_to_gui does with the cursor at path and auto_sync_gui as
\* sync: the socket calls, the notifications and the connection made.
connect_to_gui(path, sync) ==
    IF ~TreeFound
    THEN /\ calls' = <<>>
         /\ notices' = <<Notice("error", <<"Error connecting to GUI preview: ", "NoMatches">>)>>
         /\ UNCHANGED ipc_vars
    ELSE IF path = NoCursor \/ ~IsNote(NodeAt(CurTree, path).data)
    THEN /\ calls' = <<>>
         /\ notices' = <<Notice("warning", <<"No note selected">>)>>
         /\ UNCHANGED ipc_vars
    ELSE LET note_id == NodeAt(CurTree, path).data.id
             tag == Len(attempts) + 1
         IN /\ Len(attempts) < MaxAttempts
            /\ UNCHANGED socket_file
            /\ CASE socket_file = "absent" ->
                      /\ calls' = <<Call("connect", note_id, tag, "FileNotFoundError"),
                                    Call("close", note_id, tag, "ok")>>
                      /\ notices' = <<Notice("error",
                            <<"GUI preview not running. Start it with: python markdown_preview.py --socket-path ",
                              SocketPath>>)>>
                      /\ attempts' = Append(attempts, Attempt("tui", note_id, "FileNotFoundError"))
                      /\ UNCHANGED backlog
                 [] socket_file = "stale" ->
                      /\ calls' = <<Call("connect", note_id, tag, "ConnectionRefusedError"),
                                    Call("close", note_id, tag, "ok")>>
                      /\ notices' = <<Notice("error", <<"Could not connect to GUI preview">>)>>
                      /\ attempts' = Append(attempts, Attempt("tui", note_id, "ConnectionRefusedError"))
                      /\ UNCHANGED backlog
                 [] OTHER ->
                      /\ Len(backlog) < MaxBacklog
                      /\ \E sent \in SendResults :
                            /\ calls' = <<Call("connect", note_id, tag, "ok"),
                                          Call("sendall", note_id, tag, sent),
                                          Call("close", note_id, tag, "ok")>>
                            /\ notices' =
                                  IF sent # "ok"
                                  THEN <<Notice("error", <<"Error connecting to GUI preview: ",
                                                           "BrokenPipeError">>)>>
                                  ELSE IF ~sync
                                  THEN <<Notice("information", <<"Connected to GUI preview">>)>>
                                  ELSE <<>>
                            /\ attempts' = Append(attempts, Attempt("tui", note_id, sent))
                            /\ backlog' = Append(backlog, Conn(tag, sendall(note_id, sent)))

action_connect_gui ==
    /\ ~crashed
    /\ connect_to_gui(CurTab.cursor, auto_sync_gui)
    /\ op' = Op("connect_gui", 0, "none")
    /\ UNCHANGED <<srv_vars, tab_vars, app_vars, crashed, pure_vars>>
    /\ UNCHANGED <<follow_mode, auto_sync_gui, preview_vars, edit_vars>>
    /\ Track

action_toggle_follow ==
    /\ ~crashed
    /\ follow_mode' = ~follow_mode
    /\ notices' = <<Notice("information",
                           <<"Follow mode ", IF follow_mode' THEN "enabled" ELSE "disabled">>)>>
    /\ op' = Op("toggle_follow", 0, "none")
    /\ calls' = <<>>
    /\ UNCHANGED <<srv_vars, tab_vars, app_vars, crashed, pure_vars>>
    /\ UNCHANGED <<auto_sync_gui, ipc_vars, preview_vars, edit_vars>>
    /\ Track

action_toggle_auto_sync ==
    /\ ~crashed
    /\ auto_sync_gui' = ~auto_sync_gui
    /\ notices' = <<Notice("information",
                           <<"Auto-sync ", IF auto_sync_gui' THEN "enabled" ELSE "disabled">>)>>
    /\ UNCHANGED app_vars
    /\ IF last_filter = <<>> /\ last_search = <<>>
       THEN /\ op' = Op("toggle_auto_sync", 0, "none")
            /\ calls' = <<>>
            /\ UNCHANGED <<srv_vars, tab_vars, crashed, pure_vars>>
       ELSE IF ~TreeFound
       THEN /\ crashed' = TRUE
            /\ op' = Op("toggle_auto_sync", -1, "none")
            /\ calls' = <<>>
            /\ UNCHANGED <<srv_vars, tab_vars, pure_vars>>
       ELSE ProjectStep("toggle_auto_sync",
                        IF dialog_mode = "search" THEN "search"
                        ELSE FilterOrSearch(last_search),
                        last_filter, flat_view, marked_for_move)
    /\ UNCHANGED <<follow_mode, ipc_vars, preview_vars, edit_vars>>
    /\ Track

\* The cursor comes onto a line of the tree shown and the NodeHighlighted
\* event of that line is handled.
on_tree_node_highlighted ==
    /\ ~crashed
    /\ \E path \in VisiblePaths(CurTree) :
          /\ tabs' = [tabs EXCEPT ![current_tab_index + 1].cursor = path]
          /\ op' = Op("tree_node_highlighted",
                      IF IsNote(NodeAt(CurTree, path).data)
                      THEN NodeAt(CurTree, path).data.id ELSE 0,
                      "none")
          /\ IF follow_mode /\ IsNote(NodeAt(CurTree, path).data) /\ auto_sync_gui
             THEN connect_to_gui(path, auto_sync_gui)
             ELSE calls' = <<>> /\ notices' = <<>> /\ UNCHANGED ipc_vars
    /\ UNCHANGED <<srv_vars, current_tab_index, app_vars, crashed, pure_vars>>
    /\ UNCHANGED <<follow_mode, auto_sync_gui, preview_vars, edit_vars>>
    /\ Track


(***************************************************************************)
(* MarkdownPreviewApp: the listener thread and the UI thread.  The combo   *)
(* box holds the ids of the notes of the service; update_note_id is        *)
(* emitted from a thread that is not the window's, so each emission is     *)
(* queued for the UI thread and the queue is served in order.              *)
(***************************************************************************)
ComboIds == AppIds

\* __init__ with a socket path: setup_ipc_server removes what is at the
\* path, binds, listens and starts the thread; the combo box is on its
\* first item.
preview_starts ==
    /\ ipc_thread.pc = "none"
    /\ socket_file' = "bound"
    /\ backlog' = <<>>
    /\ ipc_thread' = [pc |-> "accept", conn |-> NoConn]
    /\ events' = <<>>
    /\ shown' = 1
    /\ UNCHANGED <<attempts, received, applied>>
    /\ UNCHANGED <<pure_vars, srv_vars, tab_vars, app_vars, run_vars, session, cycled,
                   gui_vars, edit_vars>>

\* closeEvent: cleanup_ipc closes the server socket and removes the path;
\* the process ends, and the connections not yet served with it.
preview_closes ==
    /\ ipc_thread.pc # "none"
    /\ socket_file' = "absent"
    /\ backlog' = <<>>
    /\ ipc_thread' = [pc |-> "none", conn |-> NoConn]
    /\ events' = <<>>
    /\ shown' = 0
    /\ UNCHANGED <<attempts, received, applied>>
    /\ UNCHANGED <<pure_vars, srv_vars, tab_vars, app_vars, run_vars, session, cycled,
                   gui_vars, edit_vars>>

\* The process is killed: nothing is cleaned up and the path stays.
preview_killed ==
    /\ ipc_thread.pc # "none"
    /\ socket_file' = IF socket_file = "bound" THEN "stale" ELSE socket_file
    /\ backlog' = <<>>
    /\ ipc_thread' = [pc |-> "none", conn |-> NoConn]
    /\ events' = <<>>
    /\ shown' = 0
    /\ UNCHANGED <<attempts, received, applied>>
    /\ UNCHANGED <<pure_vars, srv_vars, tab_vars, app_vars, run_vars, session, cycled,
                   gui_vars, edit_vars>>

\* conn, _ = self.ipc_server.accept()
ipc_accept ==
    /\ ipc_thread.pc = "accept"
    /\ backlog # <<>>
    /\ ipc_thread' = [pc |-> "recv", conn |-> Head(backlog)]
    /\ backlog' = Tail(backlog)
    /\ UNCHANGED <<socket_file, attempts, events, shown, received, applied>>
    /\ UNCHANGED <<pure_vars, srv_vars, tab_vars, app_vars, run_vars, session, cycled,
                   gui_vars, edit_vars>>

\* Whether the listener emits update_note_id for the data of one recv.
Emits(data) ==
    /\ json_loads(data).kind = "object"
    /\ json_get(data, "command") = "set_note"
    /\ json_get(data, "note_id") # "null"

\* The emissions after the body of the inner loop has run on data read
\* from the connection tagged tag.
ipc_handle_reset(queue, tag, data) ==
    IF Emits(data)
    THEN Append(queue, [tag |-> tag, note_id |-> IntOf(json_get(data, "note_id"))])
    ELSE <<>>

ipc_handle(queue, tag, data) ==
    IF Emits(data)
    THEN Append(queue, [tag |-> tag, note_id |-> IntOf(json_get(data, "note_id"))])
    ELSE queue

\* data = conn.recv(1024) and the body of the inner loop; no data ends the
\* connection and the thread accepts again.
ipc_recv ==
    /\ ipc_thread.pc = "recv"
    /\ IF ipc_thread.conn.chunks = <<>>
       THEN /\ ipc_thread' = [pc |-> "accept", conn |-> NoConn]
            /\ UNCHANGED <<events, received>>
       ELSE LET data == Head(ipc_thread.conn.chunks)
            IN /\ ipc_thread' = [ipc_thread EXCEPT !.conn.chunks = Tail(@)]
               /\ received' = Append(received, [tag |-> ipc_thread.conn.tag, data |-> data])
               /\ events' = ipc_handle(events, ipc_thread.conn.tag, data)
    /\ UNCHANGED <<socket_file, attempts, backlog, shown, applied>>
    /\ UNCHANGED <<pure_vars, srv_vars, tab_vars, app_vars, run_vars, session, cycled,
                   gui_vars, edit_vars>>

\* The emission the UI thread takes next.
next_event_newest(queue) == Len(queue)

next_event(queue) == 1

\* _update_note_id(note_id) on the UI thread.
ui_update_note_id ==
    /\ ipc_thread.pc # "none"
    /\ events # <<>>
    /\ LET k == next_event(events)
           note_id == events[k].note_id
       IN /\ shown' = IF note_id \in ComboIds THEN note_id ELSE shown
          /\ applied' = Append(applied, events[k].tag)
          /\ events' = RemoveAt(events, k)
    /\ UNCHANGED <<socket_file, attempts, backlog, ipc_thread, received>>
    /\ UNCHANGED <<pure_vars, srv_vars, tab_vars, app_vars, run_vars, session, cycled,
                   gui_vars, edit_vars>>

\* What another process may send on one connection.
OtherSends ==
    { <<<<"{", "command">>>>,
      <<<<"\\xff">>>>,
      <<<<"[", "]">>>>,
      <<<<"{", "note_id", "2", "}">>>>,
      <<<<"{", "command", "refresh", "}">>>>,
      <<<<"{", "command", "set_note", "}">>>>,
      <<<<"{", "command", "set_note", "note_id", "null", "}">>>>,
      <<json_dumps("set_note", 9)>>,
      <<json_dumps("set_note", 1)>>,
      <<json_dumps("set_note", 3)>>,
      <<<<"{", "command">>, json_dumps("set_note", 2)>> }

\* Another process connects, sends and closes.
other_client_sends ==
    /\ socket_file = "bound"
    /\ Len(attempts) < MaxAttempts
    /\ Len(backlog) < MaxBacklog
    /\ \E chunks \in OtherSends :
          /\ attempts' = Append(attempts, Attempt("other", 0, "ok"))
          /\ backlog' = Append(backlog, Conn(Len(attempts) + 1, chunks))
    /\ UNCHANGED <<socket_file, preview_vars>>
    /\ UNCHANGED <<pure_vars, srv_vars, tab_vars, app_vars, run_vars, session, cycled,
                   gui_vars, edit_vars>>

\* The preview and the channel with NotesApp at rest, and NotesApp in one
\* tab with them.
NextPreview ==
    \/ preview_starts
    \/ preview_killed
    \/ other_client_sends
    \/ ipc_accept
    \/ ipc_recv
    \/ ui_update_note_id

InitPreview == InitWith(FlatParent)

SpecPreview == InitPreview /\ [][NextPreview]_vars

\* NotesApp sending and the preview receiving.
NextSync ==
    \/ on_tree_node_highlighted
    \/ action_connect_gui
    \/ action_toggle_auto_sync
    \/ preview_starts
    \/ preview_closes
    \/ ipc_accept
    \/ ipc_recv
    \/ ui_update_note_id

InitSync == InitWith(FlatParent)

SpecSync == InitSync /\ [][NextSync]_vars

\* NotesApp connecting, with a preview that comes and goes and a socket
\* path in every condition.
NextConnect ==
    \/ on_tree_node_highlighted
    \/ action_connect_gui
    \/ action_toggle_follow
    \/ action_toggle_auto_sync
    \/ preview_starts
    \/ preview_closes
    \/ preview_killed

InitConnect == InitWith(FlatParent)

SpecConnect == InitConnect /\ [][NextConnect]_vars


\* A step of a handler of NotesApp: every step of the preview moves its
\* listener thread or its UI thread, and another client leaves its mark.
AppStep ==
    /\ UNCHANGED preview_vars
    /\ attempts' # attempts => attempts'[Len(attempts')].by = "tui"

\* The entries of kind in the calls of the last handler.
CallsOf(log, kind) == {k \in DOMAIN log : log[k].kind = kind}

\* The tags the UI thread has been handed or has handled.
Emitted == [k \in DOMAIN applied |-> applied[k]] \o [k \in DOMAIN events |-> events[k].tag]

\* Each message NotesApp sent is read at most once, as it was written, and
\* handed over at most once; a connection that failed carries nothing.
DeliveredAtMostOnce ==
    \A n \in DOMAIN attempts :
       attempts[n].by = "tui" =>
          LET reads == {k \in DOMAIN received : received[k].tag = n}
              handed == {k \in DOMAIN Emitted : Emitted[k] = n}
          IN /\ Cardinality(reads) <= 1
             /\ Cardinality(handed) <= 1
             /\ attempts[n].result # "ok" => reads = {} /\ handed = {}
             /\ \A k \in reads :
                   received[k].data = <<"{", "command", "set_note",
                                        "note_id", IdStr(attempts[n].note), "}">>

(***************************************************************************)
(* C22: a connect_to_gui that found the tree with the cursor on a note     *)
(* tries one connection; when it succeeds it writes one set_note message   *)
(* with the id of that note, and it closes the socket; a failed connection *)
(* writes nothing.  No message is read or handed to the UI thread more     *)
(* than once, and none from a connection that failed.                      *)
(***************************************************************************)
C22_OneAttemptAtMostOnce ==
    [][/\ ((\/ op'.name = "connect_gui" /\ CursorOnNote
            \/ op'.name = "tree_node_highlighted" /\ op'.arg # 0
                 /\ follow_mode /\ auto_sync_gui)
           /\ TreeFound /\ AppStep) =>
             LET id == NodeAt(CurTree', CurTab'.cursor).data.id
             IN /\ Cardinality(CallsOf(calls', "connect")) = 1
                /\ calls'[1].kind = "connect" /\ calls'[1].note = id
                /\ calls'[Len(calls')].kind = "close"
                /\ Len(attempts') = Len(attempts) + 1
                /\ IF calls'[1].result = "ok"
                   THEN /\ Len(calls') = 3
                        /\ calls'[2].kind = "sendall" /\ calls'[2].note = id
                        /\ Len(backlog') = Len(backlog) + 1
                        /\ calls'[2].result = "ok" =>
                              backlog'[Len(backlog')].chunks =
                                 << <<"{", "command", "set_note", "note_id", IdStr(id), "}">> >>
                   ELSE /\ Len(calls') = 2
                        /\ backlog' = backlog
       /\ DeliveredAtMostOnce']_vars

\* A connection failed, a later one carried its message to the preview,
\* which shows the note, and nothing of the first ever arrived.
C22_Witness ==
    /\ Len(attempts) = 2
    /\ attempts[1].by = "tui" /\ attempts[1].result = "FileNotFoundError"
    /\ attempts[2].by = "tui" /\ attempts[2].result = "ok"
    /\ attempts[2].note = 2
    /\ applied = <<2>>
    /\ shown = 2
    /\ Len(received) = 1


\* A notification that names the socket path and says how to start the
\* preview.
Actionable(notice) ==
    /\ \E k \in DOMAIN notice.text : notice.text[k] = SocketPath
    /\ \E k \in DOMAIN notice.text :
          notice.text[k] =
             "GUI preview not running. Start it with: python markdown_preview.py --socket-path "

ConnectFailures == {"FileNotFoundError", "ConnectionRefusedError"}

(***************************************************************************)
(* C23: when the connection of connect_to_gui fails because nothing is at  *)
(* the socket path or nobody listens on it, a notification names the       *)
(* socket path and how to start the preview, the application keeps         *)
(* running, and tabs, marks, filter and search text, fold level and flags  *)
(* are as before.                                                          *)
(***************************************************************************)
C23_FailureNamesSocketPath ==
    [][(/\ op'.name = "connect_gui"
        /\ AppStep
        /\ calls' # <<>>
        /\ calls'[1].result \in ConnectFailures) =>
          /\ \E k \in DOMAIN notices' : Actionable(notices'[k])
          /\ ~crashed'
          /\ UNCHANGED <<tabs, current_tab_index, marked_for_move, last_filter,
                         last_search, current_fold_level, flat_view, dialog_mode,
                         follow_mode, auto_sync_gui>>]_vars


(***************************************************************************)
(* C24: while auto_sync_gui is enabled, every highlight of a note runs     *)
(* connect_to_gui once: one connection is tried for each such event.       *)
(***************************************************************************)
C24_AutoSyncOnEveryHighlight ==
    [][(/\ op'.name = "tree_node_highlighted"
        /\ op'.arg # 0
        /\ auto_sync_gui
        /\ TreeFound
        /\ AppStep) =>
          /\ Cardinality(CallsOf(calls', "connect")) = 1
          /\ Len(attempts') = Len(attempts) + 1]_vars


(***************************************************************************)
(* NotesApp: editing a note in an external editor.  setup_ui, which the    *)
(* blocking path runs after the editor, is taken to return normally.       *)
(***************************************************************************)
MaxEdits == 2

\* What an editor may leave in the file in place of what it was given.
NewContent == 7

EditorRuns == {"ok", "nonzero", "nostart"}

FailedToEdit == Notice("error", <<"Failed to edit note: ">>)

\* finally: tmp_path.unlink(), on the set of temporary files that exist.
unlink_missed(files, n) == files

unlink(files, n) == files \ {n}

\* Whether the try block gets past the editor: subprocess.run(check=True)
\* raises on a non-zero exit, process.wait() returns whatever the exit
\* status is; both paths raise when the editor cannot be started.
edit_proceeds(suspend, run) == run = "ok" \/ (~suspend /\ run = "nonzero")

\* The rest of the try block after the editor, the except clause and the
\* finally clause of an edit of note with the temporary file n holding
\* content: the write-back, the viewer's display_note(new_content) (logged
\* with the note whose content it is), the rebuild of the tree, the
\* notification and the removal of the file are logged after before.
write_back(name, note, n, content, before, upd) ==
    IF upd # "ok"
    THEN /\ calls' = before \o <<Call("update_note", note, n, upd),
                                Call("unlink", note, n, "ok")>>
         /\ notices' = <<FailedToEdit>>
         /\ op' = Op(name, note, "none")
         /\ UNCHANGED <<srv_vars, srv_content, tab_vars, crashed, pure_vars>>
    ELSE /\ srv_content' = [srv_content EXCEPT ![note] = content]
         /\ notices' = <<>>
         /\ IF ~TreeFound
            THEN /\ crashed' = TRUE
                 /\ op' = Op(name, -1, "none")
                 /\ calls' = before \o <<Call("update_note", note, n, upd),
                                        Call("display_note", note, n, "ok"),
                                        Call("unlink", note, n, "ok")>>
                 /\ UNCHANGED <<srv_vars, tab_vars, pure_vars>>
            ELSE ProjectStepWith(name, ServerTreeWith(srv_parent, srv_content'),
                                 before \o <<Call("update_note", note, n, upd),
                                            Call("display_note", note, n, "ok"),
                                            Call("unlink", note, n, "ok")>>,
                                 IF last_filter # <<>> THEN FilterOrSearch(last_search)
                                 ELSE IF last_search # <<>> THEN "search"
                                 ELSE "refresh",
                                 last_filter, flat_view, marked_for_move)

\* A handler that returns without a word.
Returned(name) ==
    /\ op' = Op(name, 0, "none")
    /\ calls' = <<>>
    /\ notices' = <<>>
    /\ UNCHANGED <<srv_vars, srv_content, tab_vars, crashed, pure_vars>>

\* action_edit_note: _edit_note_with_editor with suspend=True; the
\* application is suspended while the editor runs.
action_edit_note ==
    /\ ~crashed
    /\ UNCHANGED <<app_vars, follow_mode, auto_sync_gui, ipc_vars, preview_vars,
                   gui_edits>>
    /\ IF ~TreeFound
       THEN Crash("edit_note")
            /\ UNCHANGED <<pure_vars, notices, srv_content, edit_count, tmp_files>>
       ELSE IF ~CursorOnNote
       THEN Returned("edit_note") /\ UNCHANGED <<edit_count, tmp_files>>
       ELSE LET note == CursorNode.data
                n == edit_count + 1
            IN /\ edit_count < MaxEdits
               /\ edit_count' = n
               /\ tmp_files' = unlink(tmp_files \cup {n}, n)
               /\ \E run \in EditorRuns, changed \in BOOLEAN, upd \in Results :
                     /\ ~edit_proceeds(TRUE, run) => ~changed /\ upd = "ok"
                     /\ IF edit_proceeds(TRUE, run)
                        THEN write_back("edit_note", note.id, n,
                                        IF changed THEN NewContent ELSE note.content,
                                        <<Call("write", note.id, n, "ok"),
                                          Call("editor", note.id, n, run)>>,
                                        upd)
                        ELSE /\ calls' = <<Call("write", note.id, n, "ok"),
                                           Call("editor", note.id, n, run),
                                           Call("unlink", note.id, n, "ok")>>
                             /\ notices' = <<FailedToEdit>>
                             /\ op' = Op("edit_note", note.id, "none")
                             /\ UNCHANGED <<srv_vars, srv_content, tab_vars, crashed,
                                            pure_vars>>
    /\ Track

GuiEdit(n, note, proc, code, content) ==
    [n |-> n, note |-> note, proc |-> proc, code |-> code, content |-> content]

\* action_gui_edit_note up to 'await process.wait()': _edit_note_with_editor
\* with suspend=False.
action_gui_edit_note ==
    /\ ~crashed
    /\ UNCHANGED <<app_vars, follow_mode, auto_sync_gui, ipc_vars, preview_vars,
                   srv_content>>
    /\ \E editor \in BOOLEAN :
          IF ~editor
          THEN /\ op' = Op("gui_edit_note", 0, "none")
               /\ calls' = <<>>
               /\ notices' = <<Notice("error", <<"GUI_EDITOR environment variable not set">>)>>
               /\ UNCHANGED <<srv_vars, tab_vars, crashed, pure_vars, tmp_files,
                              gui_edits, edit_count>>
          ELSE IF ~TreeFound
          THEN Crash("gui_edit_note")
               /\ UNCHANGED <<pure_vars, notices, tmp_files, gui_edits, edit_count>>
          ELSE IF ~CursorOnNote
          THEN /\ op' = Op("gui_edit_note", 0, "none")
               /\ calls' = <<>>
               /\ notices' = <<>>
               /\ UNCHANGED <<srv_vars, tab_vars, crashed, pure_vars, tmp_files,
                              gui_edits, edit_count>>
          ELSE LET note == CursorNode.data
                   n == edit_count + 1
               IN /\ edit_count < MaxEdits
                  /\ edit_count' = n
                  /\ op' = Op("gui_edit_note", note.id, "none")
                  /\ UNCHANGED <<srv_vars, tab_vars, crashed, pure_vars>>
                  /\ \E started \in BOOLEAN :
                        IF started
                        THEN /\ calls' = <<Call("write", note.id, n, "ok"),
                                           Call("editor", note.id, n, "started")>>
                             /\ notices' = <<>>
                             /\ tmp_files' = tmp_files \cup {n}
                             /\ gui_edits' = gui_edits \cup
                                   {GuiEdit(n, note.id, "running", 0, note.content)}
                        ELSE /\ calls' = <<Call("write", note.id, n, "ok"),
                                           Call("editor", note.id, n, "nostart"),
                                           Call("unlink", note.id, n, "ok")>>
                             /\ notices' = <<FailedToEdit>>
                             /\ tmp_files' = unlink(tmp_files \cup {n}, n)
                             /\ UNCHANGED gui_edits
    /\ Track

\* The GUI editor process of an edit ends, with any exit status, having
\* changed the file or not.
editor_exits ==
    /\ \E e \in gui_edits, code \in {0, 1}, changed \in BOOLEAN :
          /\ e.proc = "running"
          /\ gui_edits' = (gui_edits \ {e}) \cup
                {GuiEdit(e.n, e.note, "exited", code,
                         IF changed THEN NewContent ELSE e.content)}
    /\ UNCHANGED <<pure_vars, srv_vars, tab_vars, app_vars, run_vars, session, cycled,
                   gui_vars, ipc_vars, preview_vars, srv_content, tmp_files, edit_count>>

\* action_gui_edit_note from the return of 'await process.wait()' on.
gui_edit_resumes ==
    /\ ~crashed
    /\ UNCHANGED <<app_vars, follow_mode, auto_sync_gui, ipc_vars, preview_vars,
                   edit_count>>
    /\ \E e \in gui_edits, upd \in Results :
          /\ e.proc = "exited"
          /\ gui_edits' = gui_edits \ {e}
          /\ tmp_files' = unlink(tmp_files, e.n)
          /\ write_back("gui_edit_note", e.note, e.n, e.content,
                        <<Call("wait", e.note, e.n, IF e.code = 0 THEN "ok" ELSE "nonzero")>>,
                        upd)
    /\ Track

\* One tab: notes edited in both ways, the cursor moved and the tree
\* refreshed while a GUI editor is open.
NextEdit ==
    \/ action_cursor_move
    \/ action_refresh
    \/ action_edit_note
    \/ action_gui_edit_note
    \/ editor_exits
    \/ gui_edit_resumes

InitEdit == InitWith(FlatParent)

SpecEdit == InitEdit /\ [][NextEdit]_vars


\* A step of one of the two edit handlers that ran an editor: an edit was
\* begun, or a pending one was taken up again.
EditStep ==
    \/ edit_count' # edit_count
    \/ \E e \in gui_edits : e \notin gui_edits' /\ \A f \in gui_edits' : f.n # e.n

\* The editor of the edit handled in this step did not start or ended with a
\* non-zero status.
EditorFailed(log) ==
    \E k \in DOMAIN log :
        /\ log[k].kind \in {"editor", "wait"}
        /\ log[k].result \in {"nonzero", "nostart"}

\* C25: when the editor cannot be started or exits with a non-zero status,
\* on the blocking path or the background path, the handler makes no
\* update_note request and shows an error notification.
C25_NoUpdateAfterEditorFailure ==
    [][EditStep /\ EditorFailed(calls')
         => /\ CallsOf(calls', "update_note") = {}
            /\ \E k \in DOMAIN notices' : notices'[k].severity = "error"]_vars


\* The temporary files that exist are those of the edits whose handler has
\* not left its try block.
TmpFilesOfPendingEdits == tmp_files = {e.n : e \in gui_edits}

\* The entries of log that come before entry k.
Before(log, k) == {j \in DOMAIN log : j < k}

\* C26: update_note is requested only after the editor process of the edit
\* has ended, and the temporary file is removed on every way out of the
\* handler: after a write-back, after an editor failure, and after a
\* write-back that failed.
C26_UpdateAfterExitTmpRemoved ==
    [][EditStep =>
         /\ \A k \in CallsOf(calls', "update_note") :
               /\ \E j \in Before(calls', k) :
                     \/ calls'[j].kind = "editor" /\ calls'[j].result = "ok"
                     \/ calls'[j].kind = "wait"
               /\ \A e \in gui_edits :
                     e.n = calls'[k].parent => e.proc = "exited"
         /\ LET n == calls'[1].parent
                last == calls'[Len(calls')]
            IN \/ /\ last.kind = "editor" /\ last.result = "started"
                  /\ \E e \in gui_edits' : e.n = n /\ e.proc = "running"
                  /\ n \in tmp_files'
               \/ /\ last.kind = "unlink" /\ last.parent = n
                  /\ n \notin tmp_files'
                  /\ \A e \in gui_edits' : e.n # n
         /\ TmpFilesOfPendingEdits']_vars

\* A background edit whose write-back failed has ended and its file is gone;
\* it is the second edit of the run.
C26_Witness ==
    /\ op.name = "gui_edit_note"
    /\ \E k \in CallsOf(calls, "update_note") : calls[k].result = "fail"
    /\ calls[Len(calls)].kind = "unlink"
    /\ edit_count = 2
    /\ tmp_files = {}
    /\ ~crashed


(***************************************************************************)
(* NotesApp: a search and a filter in force together.                      *)
(***************************************************************************)
action_clear_marks ==
    /\ ~crashed
    /\ marked_for_move' = {}
    /\ UNCHANGED <<current_fold_level, last_filter, last_search, dialog_mode, flat_view>>
    /\ IF ~TreeFound
       THEN /\ crashed' = TRUE
            /\ op' = Told(Op("clear_marks", -1, "none"),
                          Notice("information", <<"Cleared marked notes: ">>))
            /\ calls' = <<>>
            /\ UNCHANGED <<srv_vars, tab_vars, pure_vars>>
       ELSE ProjectStepTold(
               "clear_marks",
               <<Notice("information", <<"Cleared marked notes: ">>)>>,
               ServerTree, <<>>,
               IF last_filter # <<>> THEN FilterOrSearch(last_search)
               ELSE IF last_search # <<>> THEN "search"
               ELSE "refresh",
               last_filter, flat_view, {})
    /\ Track
    /\ UNCHANGED ext_vars

\* Notes 1 and 3 at top level, note 2 the child of note 1.
ForkParent == [i \in AppIds |-> IF i = 2 THEN 1 ELSE 0]

\* One tab: every handler that rebuilds the tree from the filter and the
\* search in force.
NextSearch ==
    \/ action_filter_notes
    \/ action_search_notes
    \/ handle_filter_change
    \/ action_toggle_flat_view
    \/ action_cursor_move
    \/ action_mark_for_move
    \/ action_clear_marks

InitSearch == InitWith(ForkParent)

SpecSearch == InitSearch /\ [][NextSearch]_vars

\* One tab: a note edited while a filter and a search are in force.
NextSearchEdit ==
    \/ action_filter_notes
    \/ action_search_notes
    \/ handle_filter_change
    \/ action_cursor_move
    \/ action_edit_note

SpecSearchEdit == InitSearch /\ [][NextSearchEdit]_vars


\* The bytes of one recv are a set_note message that carries a note id.
IsSetNote(data) ==
    /\ Len(data) = 6
    /\ data[1] = "{" /\ data[2] = "command" /\ data[3] = "set_note"
    /\ data[4] = "note_id" /\ data[5] # "null" /\ data[6] = "}"

\* The listener has read data in this step.
Read == received' # received

\* C29: a payload that is not JSON, or a message whose command is not
\* set_note or that carries no note id, changes nothing in the preview and
\* leaves the listener reading and accepting; a set_note read afterwards
\* is handed to the UI thread.
C29_ListenerSurvivesBadMessages ==
    [][/\ Read =>
            LET last == received'[Len(received')]
            IN /\ ipc_thread'.pc = "recv"
               /\ shown' = shown /\ applied' = applied
               /\ IF IsSetNote(last.data)
                  THEN events' = Append(events, [tag |-> last.tag,
                                                 note_id |-> IntOf(last.data[5])])
                  ELSE events' = events
       /\ (ipc_thread.pc = "recv" /\ ~Read /\ ipc_thread' # ipc_thread
              /\ ipc_thread'.pc # "none")
             => /\ ipc_thread.conn.chunks = <<>>
                /\ ipc_thread'.pc = "accept"
                /\ UNCHANGED <<events, shown, applied>>]_vars

\* After a payload that is not JSON on one connection, a set_note for note 3
\* on a later connection has been read and applied.
C29_Witness ==
    /\ \E i, j \in DOMAIN received :
          /\ i < j
          /\ received[i].data = <<"{", "command">>
          /\ received[j].data = <<"{", "command", "set_note", "note_id", "3", "}">>
          /\ received[i].tag < received[j].tag
          /\ \E k \in DOMAIN applied : applied[k] = received[j].tag
    /\ shown = 3

\* The tags of the set_note messages among those read, in the order read.
RECURSIVE SetNoteTags(_)
SetNoteTags(msgs) ==
    IF msgs = <<>> THEN <<>>
    ELSE (IF IsSetNote(Head(msgs).data) THEN <<Head(msgs).tag>> ELSE <<>>)
         \o SetNoteTags(Tail(msgs))

RECURSIVE IsSubSeq(_, _)
\* s is t with some elements left out.
IsSubSeq(s, t) ==
    IF s = <<>> THEN TRUE
    ELSE IF t = <<>> THEN FALSE
    ELSE IF Head(s) = Head(t) THEN IsSubSeq(Tail(s), Tail(t))
    ELSE IsSubSeq(s, Tail(t))

\* C30: the listener thread changes nothing of what the window shows; the
\* displayed note changes only when the UI thread takes the emission that
\* has waited longest, and the emissions are applied in the order in which
\* their messages were read.
C30_OnlyUiThreadAppliesInOrder ==
    [][/\ (ipc_thread' # ipc_thread /\ ipc_thread.pc # "none" /\ ipc_thread'.pc # "none")
             => shown' = shown /\ applied' = applied
       /\ (shown' # shown /\ shown # 0 /\ shown' # 0) => applied' # applied
       /\ applied' # applied
             => /\ events # <<>>
                /\ applied' = Append(applied, events[1].tag)
                /\ events' = Tail(events)
                /\ shown' = IF events[1].note_id \in AppIds
                            THEN events[1].note_id ELSE shown
                /\ UNCHANGED <<ipc_thread, received>>
       /\ IsSubSeq(applied', SetNoteTags(received'))]_vars

\* Two set_note messages were read, for note 1 and then for note 3, and both
\* have been applied: the window shows note 3.
C30_Witness ==
    /\ Len(received) = 2
    /\ received[1].data = <<"{", "command", "set_note", "note_id", "1", "}">>
    /\ received[2].data = <<"{", "command", "set_note", "note_id", "3", "}">>
    /\ applied = <<received[1].tag, received[2].tag>>
    /\ events = <<>>
    /\ shown = 3


\* The handler of this step has rebuilt the tree of the current tab and its
\* requests were answered.
Rebuilt == op'.arg = -1 /\ op'.fetch = "ok" /\ ~crashed'

\* The notes shown for the ranked ids hits before any filter: each hit alone
\* in the flat view, the paths to the hits otherwise.
SearchDerived(notes, hits, flat) ==
    IF flat
    THEN [k \in DOMAIN hits |->
             LET note == NoteWithId(notes, hits[k])
             IN TreeNote(note.id, note.title, note.content, <<>>)]
    ELSE sort_by_search_order(
             filter_notes_by_ids(notes, {hits[k] : k \in DOMAIN hits}), hits)

\* The tree that shows notes, marked as marked, fully unfolded.
Showing(notes, marked) ==
    unfold_node([tree_clear(CurTree) EXCEPT !.children = populate_tree(notes, marked)])

SearchViewBuilt ==
    /\ Rebuilt
    /\ last_search' # <<>>
    /\ ~(op'.name = "handle_filter_change" /\ dialog_mode = "filter"
         /\ last_filter' = <<>>)

\* The place of id in the ranking; a note that is no hit comes after all.
Position(hits, id) ==
    IF \E k \in DOMAIN hits : hits[k] = id
    THEN CHOOSE k \in DOMAIN hits : hits[k] = id
    ELSE Len(hits) + 1

RECURSIVE RankOrdered(_, _)
\* Under node and under every node below it: the lines with children come
\* first, the lines without children follow in the order of the ranking.
RankOrdered(node, hits) ==
    /\ \A i, j \in DOMAIN node.children :
          i < j =>
             LET a == node.children[i]
                 b == node.children[j]
             IN /\ ~(a.children = <<>> /\ b.children # <<>>)
                /\ (a.children = <<>> /\ b.children = <<>>)
                      => Position(hits, a.data.id) <= Position(hits, b.data.id)
    /\ \A i \in DOMAIN node.children : RankOrdered(node.children[i], hits)

\* The lines under root are the hits in the order of the ranking (those a
\* filter in force has left), none with children.
FlatInRankOrder(root, hits, filter) ==
    LET ids == [k \in DOMAIN root.children |-> root.children[k].data.id]
    IN /\ \A k \in DOMAIN root.children : root.children[k].children = <<>>
       /\ IsSubSeq(ids, hits)
       /\ filter = <<>> => ids = hits

\* C28: in the hierarchical search view, under every node and at top level,
\* the notes shown with children come before the notes shown without, and
\* the notes shown without children are in ascending rank of the search
\* results; in the flat search view the notes are the hits in rank order,
\* none with children.
C28_SearchRankOrder ==
    [][SearchViewBuilt =>
          IF flat_view'
          THEN FlatInRankOrder(tabs'[current_tab_index' + 1].tree, op'.hits, last_filter')
          ELSE RankOrdered(tabs'[current_tab_index' + 1].tree, op'.hits)]_vars


(***************************************************************************)
(* The two texts of the dialog.                                            *)
(***************************************************************************)
\* C31: a change of the dialog's input in search mode leaves last_filter as
\* it was, and in filter mode leaves last_search as it was; a search is
\* only answered when the text just stored is not empty; opening the
\* filter dialog sets dialog_mode to "filter" and opening the search
\* dialog sets it to "search", and neither changes last_filter or
\* last_search.
C31_InputChangeTouchesOneText ==
    [][ /\ (op'.name = "handle_filter_change" /\ dialog_mode = "search")
           => /\ last_filter' = last_filter
              /\ last_search' \in Inputs
              /\ dialog_mode' = "search"
              /\ op'.hits # <<>> => last_search' # <<>>
        /\ (op'.name = "handle_filter_change" /\ dialog_mode = "filter")
           => /\ last_search' = last_search
              /\ last_filter' \in Inputs
              /\ dialog_mode' = "filter"
              /\ op'.hits # <<>> => (last_search # <<>> /\ last_filter' # <<>>)
        /\ op'.name = "filter_notes"
           => /\ dialog_mode' = "filter"
              /\ last_filter' = last_filter
              /\ last_search' = last_search
        /\ op'.name = "search_notes"
           => /\ dialog_mode' = "search"
              /\ last_filter' = last_filter
              /\ last_search' = last_search
      ]_vars

\* The input changed in search mode while a filter was set, and the search
\* text is now another one.
C31_Witness ==
    /\ op.name = "handle_filter_change"
    /\ dialog_mode = "search"
    /\ last_filter = <<"a">>
    /\ last_search = <<"b">>


(***************************************************************************)
(* NotesApp: failures of the handlers that change the notes.               *)
(***************************************************************************)
\* One tab: every handler that changes the notes of the service.
NextMutate ==
    \/ action_cursor_move
    \/ action_mark_for_move
    \/ action_clear_marks
    \/ action_paste_as_children
    \/ action_promote_note
    \/ action_demote_note
    \/ action_new_note
    \/ action_delete_note

InitMutate == InitWith(ForkParent)

SpecMutate == InitMutate /\ [][NextMutate]_vars


MutationNames ==
    {"mark_for_move", "clear_marks", "paste", "promote", "demote", "new_note", "delete"}

\* The requests of log that raised.
Raised(log) == {k \in DOMAIN log : log[k].result \notin {"ok"}}

ToldError(told) == \E k \in DOMAIN told : told[k].severity = "error"

C33_TreeIdsFollowTabs ==
    /\ TreeMounted(tabs, current_tab_index, current_tab_index)
    /\ \A i, j \in DOMAIN tabs : i # j => tabs[i].tree_id # tabs[j].tree_id


(***************************************************************************)
(* The overlay after the handlers that refresh.                            *)
(***************************************************************************)
\* The ids of the notes on the lines of tree.
NotesShown(tree) ==
    {NodeAt(tree, p).data.id : p \in {q \in PathsOf(tree) : IsNote(NodeAt(tree, q).data)}}

\* C34: whenever a handler has rebuilt the tree of the current tab while a
\* filter or a search is in force, the tree shows the notes of the
\* projection the texts ask for (the search results, passed through the
\* filter when there is one; the filtered tree, flattened in the flat
\* view, when there is no search), and not the unfiltered tree.
C34_OverlaySurvivesRebuild ==
    [][(Rebuilt /\ (last_filter' # <<>> \/ last_search' # <<>>))
         => \A notes \in {ServerTreeWith(srv_parent', srv_content')} :
            \A found \in {IF last_search' # <<>>
                           THEN SearchDerived(notes, op'.hits, flat_view')
                           ELSE notes} :
            \A filtered \in {IF last_filter' # <<>>
                              THEN filter_notes_by_query(found, last_filter')
                              ELSE found} :
               NotesShown(tabs'[current_tab_index' + 1].tree) =
                  IdsOf(IF flat_view' /\ last_search' = <<>>
                        THEN flatten_filtered_notes(filtered)
                        ELSE filtered)]_vars


(***************************************************************************)
(* Cycles.                                                                 *)
(***************************************************************************)
\* C35: a paste never asks for a cycle: none of its attach requests names
\* the same note as child and as parent, and none puts a marked note under
\* a note that lies below it in the hierarchy the handler started from.
C35_PasteRequestsNoCycle ==
    [][op'.name = "paste"
         => \A k \in CallsOf(calls', "attach") :
               /\ calls'[k].note # calls'[k].parent
               /\ ~Descends(srv_parent, calls'[k].parent, calls'[k].note)]_vars


(***************************************************************************)
(* Promote and demote under a projection.                                  *)
(***************************************************************************)
\* One tab over notes that start at top level: a filter, the flat view, the
\* cursor, promote and demote.
NextMoveView ==
    \/ handle_filter_change
    \/ action_toggle_flat_view
    \/ action_cursor_move
    \/ action_promote_note
    \/ action_demote_note

InitMoveView == InitWith(FlatParent)

SpecMoveView == InitMoveView /\ [][NextMoveView]_vars

\* The note listed just before note among the notes of the same parent in
\* the hierarchy par; 0 when note is the first of them.
PrecedingSibling(par, note) ==
    LET before == {m \in DOMAIN par : par[m] = par[note] /\ m < note}
    IN IF before = {} THEN 0
       ELSE CHOOSE m \in before : \A o \in before : o <= m

\* C36: the parent, the grandparent and the preceding sibling that promote
\* and demote act on are those the note has in the hierarchy of the
\* service, whatever projection the tree shows: a promote says that the
\* note is at root level only when it has no parent there and attaches it
\* to the parent of its parent, and a demote attaches it to the note that
\* precedes it under its parent.
C36_MovesFollowServerHierarchy ==
    [][(~crashed' /\ op'.name \in {"promote", "demote"})
         => /\ (op'.name = "promote"
                 /\ op'.notice = <<Notice("warning", <<"Note is already at root level">>)>>)
               => srv_parent[CursorNode.data.id] = 0
            /\ \A k \in CallsOf(calls', "attach") :
                  calls'[k].parent =
                     IF op'.name = "promote"
                     THEN srv_parent[srv_parent[calls'[k].note]]
                     ELSE PrecedingSibling(srv_parent, calls'[k].note)]_vars


(***************************************************************************)
(* Marks and deleted notes.                                                *)
(***************************************************************************)
\* C37: marked_for_move holds only ids of notes the service still has: once
\* a delete of a marked note has succeeded, its id is not in the set.
C37_MarksAreLiveNotes ==
    \A m \in marked_for_move : ~Gone(srv_parent, m)


(***************************************************************************)
(* A GUI edit that ends late.                                              *)
(***************************************************************************)
\* C38: when the handler of a GUI edit takes up again after its editor has
\* ended, its update_note goes to the note the cursor was on when the edit
\* began, and what it puts in the viewer is the content of the note the
\* cursor is on now, not that of the edited note when the cursor has moved
\* to another note meanwhile.
C38_LateEditShowsCursorNote ==
    [][(op'.name = "gui_edit_note" /\ EditStep /\ edit_count' = edit_count)
         => /\ \A k \in CallsOf(calls', "update_note") :
                  \E e \in gui_edits : e.n = calls'[k].parent /\ e.note = calls'[k].note
            /\ (TreeFound /\ CursorOnNote)
                  => \A k \in CallsOf(calls', "display_note") :
                        calls'[k].note = CursorNode.data.id]_vars


(***************************************************************************)
(* The flat view of a filter.                                              *)
(***************************************************************************)
\* C39: when a handler has built the flat view of a filter (no search in
\* force), every note of the service whose title matches the filter is on
\* a line of the tree, also a matching note that has a matching note below
\* it.
C39_FlatFilterListsEveryMatch ==
    (/\ op.name \in {"handle_filter_change", "toggle_flat_view"}
     /\ op.arg = -1 /\ op.fetch = "ok" /\ ~crashed
     /\ flat_view /\ last_filter # <<>> /\ last_search = <<>>)
       => \A n \in NodeSet(ServerTree) :
             title_matches(n, last_filter) => n.id \in NotesShown(CurTree)


(***************************************************************************)
(* The fold level on a tree that stays as it is.                           *)
(***************************************************************************)
\* The services that hold some, all or none of the notes, in any forest.
Holdings ==
    {par \in [AppIds -> {Deleted} \cup (0..AppNotes)] :
        \A i \in AppIds : par[i] < i /\ (par[i] > 0 => par[par[i]] # Deleted)}

InitFoldFixed == \E par \in Holdings : InitWith(par)

\* One tab whose tree is never rebuilt: the four fold handlers.
NextFoldFixed ==
    \/ action_fold_cycle
    \/ action_fold_cycle_reverse
    \/ action_fold_to_first
    \/ action_unfold_tree

SpecFoldFixed == InitFoldFixed /\ [][NextFoldFixed]_vars

\* C40: after any sequence of fold handlers on a tree that is not rebuilt,
\* the stored fold level is at least 0 and at most the greatest depth of
\* the tree.
C40_FoldLevelWithinDepth ==
    /\ 0 <= current_fold_level
    /\ current_fold_level <= get_max_depth(CurTree)

=============================================================================
